---- MODULE Spec2Model ----
(***************************************************************************)
(* AD-HTC biogas plant calculation pipeline: kinetics and yield engine,    *)
(* boiler thermal balance, Brayton power cycle and steam-table lookups.    *)
(*                                                                         *)
(* Numbers.  The engines compute on Python floats.  The model computes on  *)
(* exact rationals extended with +infinity: a number is a record           *)
(* [neg, n, d] whose numerator n and denominator d are naturals of         *)
(* arbitrary size (little-endian sequences of limbs below Base), so no     *)
(* product overflows and no quotient is truncated.  Floating-point         *)
(* rounding (about 1e-16 relative per operation) is not modelled.          *)
(***************************************************************************)
EXTENDS Integers, Sequences, FiniteSets, TLC

VARIABLES
  op, args, ret,        \* the last call: its name, its arguments, what it returned
  df,                   \* the df attribute of the SteamTableLookup in use
  kin,                  \* the BiogasKinetics instance: its attributes
  sat_lookup,           \* steam_tables._sat_lookup
  sup_lookup,           \* steam_tables._sup_lookup
  pc,                   \* where each caller of get_sat_lookup / get_sup_lookup stands
  made,                 \* the instance each caller has constructed and not yet stored
  got,                  \* the instance each getter last returned to each caller
  loads,                \* how many times each constructor has run
  session_state         \* st.session_state of one browser session of app.py

\* the module globals of steam_tables.py and the callers of its two getters
loader == <<sat_lookup, sup_lookup, pc, made, got, loads>>

vars == <<op, args, ret, df, kin, loader, session_state>>

None == "None"

\* the df attribute of a lookup object: None, or the rows of a DataFrame
NoDataFrame == [isNone |-> TRUE, rows |-> <<>>]

DataFrame(rows) == [isNone |-> FALSE, rows |-> rows]

(***************************************************************************)
(* Naturals of arbitrary size.                                             *)
(***************************************************************************)
Base == 100 * 100

RECURSIVE NFromInt(_)
NFromInt(i) == IF i = 0 THEN <<>> ELSE <<i % Base>> \o NFromInt(i \div Base)

RECURSIVE NNorm(_)
NNorm(a) ==
  IF a = <<>> THEN <<>>
  ELSE IF a[Len(a)] = 0 THEN NNorm(SubSeq(a, 1, Len(a) - 1))
  ELSE a

NRest(a) == IF a = <<>> THEN <<>> ELSE Tail(a)

NLow(a) == IF a = <<>> THEN 0 ELSE Head(a)

RECURSIVE NAddC(_, _, _)
NAddC(a, b, c) ==
  IF a = <<>> /\ b = <<>> THEN (IF c = 0 THEN <<>> ELSE <<c>>)
  ELSE LET x == NLow(a) + NLow(b) + c
       IN  <<x % Base>> \o NAddC(NRest(a), NRest(b), x \div Base)

NAdd(a, b) == NAddC(a, b, 0)

\* a - b - c for a >= b + c, limb by limb with borrow c
RECURSIVE NSubB(_, _, _)
NSubB(a, b, c) ==
  IF a = <<>> THEN <<>>
  ELSE LET x == NLow(a) - NLow(b) - c
       IN  IF x < 0 THEN <<x + Base>> \o NSubB(NRest(a), NRest(b), 1)
           ELSE <<x>> \o NSubB(NRest(a), NRest(b), 0)

NSub(a, b) == NNorm(NSubB(a, b, 0))

RECURSIVE NCmpAt(_, _, _)
NCmpAt(a, b, i) ==
  IF i = 0 THEN 0
  ELSE IF a[i] < b[i] THEN -1
  ELSE IF a[i] > b[i] THEN 1
  ELSE NCmpAt(a, b, i - 1)

\* -1, 0 or 1 as a < b, a = b, a > b
NCmp(a, b) ==
  IF Len(a) < Len(b) THEN -1
  ELSE IF Len(a) > Len(b) THEN 1
  ELSE NCmpAt(a, b, Len(a))

RECURSIVE NMulLimb(_, _, _)
NMulLimb(a, m, c) ==
  IF a = <<>> THEN (IF c = 0 THEN <<>> ELSE <<c>>)
  ELSE LET x == Head(a) * m + c
       IN  <<x % Base>> \o NMulLimb(Tail(a), m, x \div Base)

NShift(a) == IF a = <<>> THEN <<>> ELSE <<0>> \o a

\* a * x + Base * p for a limb x
NMulAdd(a, x, p) ==
  IF p = <<>> THEN (IF x = 0 THEN <<>> ELSE NMulLimb(a, x, 0))
  ELSE NAdd(IF x = 0 THEN <<>> ELSE NMulLimb(a, x, 0), NShift(p))

RECURSIVE NMul(_, _)
NMul(a, b) ==
  IF a = <<>> \/ b = <<>> THEN <<>>
  ELSE NMulAdd(a, Head(b), NMul(a, Tail(b)))

\* the limbs 1..i of a \div k, for a small k and the remainder r carried down
RECURSIVE NDivAt(_, _, _, _)
NDivAt(a, k, i, r) ==
  IF i = 0 THEN <<>>
  ELSE LET cur == r * Base + a[i]
       IN  IF cur < k THEN NDivAt(a, k, i - 1, cur) \o <<0>>
           ELSE NDivAt(a, k, i - 1, cur % k) \o <<cur \div k>>

NDivSmall(a, k) == NNorm(NDivAt(a, k, Len(a), 0))

\* a % k for a small k
RECURSIVE NModAt(_, _, _, _)
NModAt(a, k, i, r) ==
  IF i = 0 THEN r
  ELSE IF r = 0 THEN NModAt(a, k, i - 1, a[i] % k)
  ELSE NModAt(a, k, i - 1, (r * Base + a[i]) % k)

NModSmall(a, k) == NModAt(a, k, Len(a), 0)

\* <<n, d>> with the common factors of n and d among the small numbers ks cancelled
RECURSIVE Cancel(_, _, _)
Cancel(n, d, ks) ==
  IF ks = <<>> \/ n = <<>> \/ d = <<>> THEN <<n, d>>
  ELSE IF NModSmall(n, Head(ks)) = 0 /\ NModSmall(d, Head(ks)) = 0
  THEN Cancel(NDivSmall(n, Head(ks)), NDivSmall(d, Head(ks)), ks)
  ELSE Cancel(n, d, Tail(ks))

\* the fraction n/d in lower terms: no common factor 10^4, 2, 5 or 3 (the engines'
\* constants are decimals, a double has a power of two below it); the value is
\* unchanged
Lower(n, d) ==
  IF n = <<>> /\ d # <<>> THEN <<n, <<1>>>> ELSE Cancel(n, d, <<Base, 8192, 16, 2, 5, 3>>)

(***************************************************************************)
(* Rationals [neg, n, d] with d > 0, and +infinity.                        *)
(***************************************************************************)
Abs(i) == IF i < 0 THEN -i ELSE i

Inf == [inf |-> TRUE]

IsInf(a) == "inf" \in DOMAIN a

\* the rational of sign neg and magnitude l[1] / l[2]
MkLowered(neg, l) == [neg |-> neg /\ l[1] # <<>>, n |-> l[1], d |-> l[2]]

Mk(neg, n, d) == MkLowered(neg, Lower(n, d))

\* the rational n/d of two machine integers, d > 0
Q(n, d) == Mk(n < 0, NFromInt(Abs(n)), NFromInt(d))

RNeg(a) == [neg |-> ~a.neg /\ a.n # <<>>, n |-> a.n, d |-> a.d]

\* signed sum of two magnitudes over the common denominator d
SAdd(an, x, bn, y, d) ==
  Mk(IF an = bn \/ NCmp(x, y) >= 0 THEN an ELSE bn,
     IF an = bn THEN NAdd(x, y) ELSE IF NCmp(x, y) >= 0 THEN NSub(x, y) ELSE NSub(y, x),
     d)

RAdd(a, b) == SAdd(a.neg, NMul(a.n, b.d), b.neg, NMul(b.n, a.d), NMul(a.d, b.d))

RSub(a, b) == RAdd(a, RNeg(b))

RMul(a, b) == Mk(a.neg # b.neg, NMul(a.n, b.n), NMul(a.d, b.d))

IsZero(a) == a.n = <<>>

\* a / b for b # 0 (a zero divisor raises ZeroDivisionError: callers test IsZero)
RDiv(a, b) == Mk(a.neg # b.neg, NMul(a.n, b.d), NMul(a.d, b.n))

\* -1, 0 or 1 as a < b, a = b, a > b
RCmp(a, b) ==
  IF a.neg # b.neg THEN (IF a.neg THEN -1 ELSE 1)
  ELSE (IF a.neg THEN -1 ELSE 1) * NCmp(NMul(a.n, b.d), NMul(b.n, a.d))

REq(a, b) == RCmp(a, b) = 0
RLt(a, b) == RCmp(a, b) < 0
RLe(a, b) == RCmp(a, b) <= 0

Zero == Q(0, 1)
One == Q(1, 1)

\* an attribute or module global holding None, resp. the value v
Unset == <<>>

Some(v) == <<v>>

\* the threads that call get_sat_lookup and get_sup_lookup
MaxCallers == 2

Callers == 1..MaxCallers

\* steam_tables.py imported and no getter called yet
LoaderInit ==
  /\ sat_lookup = Unset
  /\ sup_lookup = Unset
  /\ pc = [t \in Callers |-> <<"idle">>]
  /\ made = [t \in Callers |-> Unset]
  /\ got = [t \in Callers |-> [sat |-> Unset, sup |-> Unset]]
  /\ loads = [sat |-> 0, sup |-> 0]

\* app.py has run init_session_state and no widget has been used yet
SessionInit ==
  session_state = [current_step |-> 0, report |-> Unset, boiler_result |-> Unset,
                   power_cycle_result |-> Unset, menu_open |-> TRUE]

Init ==
  /\ op = "init"
  /\ args = <<>>
  /\ ret = <<>>
  /\ df = NoDataFrame
  /\ kin = Unset
  /\ LoaderInit
  /\ SessionInit

(***************************************************************************)
(* Kinetics and yield engine (biogas_engine.py).                           *)
(***************************************************************************)
SECONDS_PER_DAY == 86400
VS_FRACTION == Q(80, 100)
SMY == Q(35, 100)
CH4_DENSITY_KG_M3 == Q(657, 1000)
PEAK_TO_AVG_FACTOR == Q(15, 10)
HIGH_SOLIDS_WARNING_PCT == Q(12, 1)

Hundred == Q(100, 1)

\* water_dilution_mass_balance with the warning raised at the threshold itself (>=)
water_dilution_warn_at_threshold(user_biomass_mass_kg_s, dry_matter_pct, added_water_ratio) ==
  LET added_water_kg_s == RMul(user_biomass_mass_kg_s, added_water_ratio)
      total_slurry_kg_s == RAdd(user_biomass_mass_kg_s, added_water_kg_s)
      dry_matter_mass_kg_s == RMul(user_biomass_mass_kg_s, RDiv(dry_matter_pct, Hundred))
      final_total_solids_pct == RMul(RDiv(dry_matter_mass_kg_s, total_slurry_kg_s), Hundred)
  IN  IF RLe(total_slurry_kg_s, Zero)
      THEN <<Zero, user_biomass_mass_kg_s, dry_matter_pct,
             RLe(HIGH_SOLIDS_WARNING_PCT, dry_matter_pct)>>
      ELSE <<added_water_kg_s, total_slurry_kg_s, final_total_solids_pct,
             RLe(HIGH_SOLIDS_WARNING_PCT, final_total_solids_pct)>>

\* water_dilution_mass_balance reporting 0 % solids for an empty slurry
water_dilution_empty_slurry_zero_pct(user_biomass_mass_kg_s, dry_matter_pct, added_water_ratio) ==
  LET added_water_kg_s == RMul(user_biomass_mass_kg_s, added_water_ratio)
      total_slurry_kg_s == RAdd(user_biomass_mass_kg_s, added_water_kg_s)
      dry_matter_mass_kg_s == RMul(user_biomass_mass_kg_s, RDiv(dry_matter_pct, Hundred))
      final_total_solids_pct == RMul(RDiv(dry_matter_mass_kg_s, total_slurry_kg_s), Hundred)
  IN  IF RLe(total_slurry_kg_s, Zero)
      THEN <<Zero, user_biomass_mass_kg_s, Zero, FALSE>>
      ELSE <<added_water_kg_s, total_slurry_kg_s, final_total_solids_pct,
             RLt(HIGH_SOLIDS_WARNING_PCT, final_total_solids_pct)>>

\* (added_water_kg_s, total_slurry_kg_s, final_total_solids_pct, high_solids_warning)
water_dilution_mass_balance(user_biomass_mass_kg_s, dry_matter_pct, added_water_ratio) ==
  LET added_water_kg_s == RMul(user_biomass_mass_kg_s, added_water_ratio)
      total_slurry_kg_s == RAdd(user_biomass_mass_kg_s, added_water_kg_s)
      dry_matter_mass_kg_s == RMul(user_biomass_mass_kg_s, RDiv(dry_matter_pct, Hundred))
      final_total_solids_pct == RMul(RDiv(dry_matter_mass_kg_s, total_slurry_kg_s), Hundred)
  IN  IF RLe(total_slurry_kg_s, Zero)
      THEN <<Zero, user_biomass_mass_kg_s, dry_matter_pct,
             RLt(HIGH_SOLIDS_WARNING_PCT, dry_matter_pct)>>
      ELSE <<added_water_kg_s, total_slurry_kg_s, final_total_solids_pct,
             RLt(HIGH_SOLIDS_WARNING_PCT, final_total_solids_pct)>>

\* partition_feedstock taking the lean share from the percentage, not the fraction
partition_feedstock_lean_from_pct(total_mass_flow_kg_s, moisture_content_pct) ==
  LET f_moisture == RDiv(moisture_content_pct, Hundred)
  IN  <<RMul(total_mass_flow_kg_s, f_moisture),
        RMul(total_mass_flow_kg_s, RSub(One, moisture_content_pct))>>

\* (moisture_rich_biomass_kg_s, moisture_lean_biomass_kg_s)
partition_feedstock(total_mass_flow_kg_s, moisture_content_pct) ==
  LET f_moisture == RDiv(moisture_content_pct, Hundred)
  IN  <<RMul(total_mass_flow_kg_s, f_moisture),
        RMul(total_mass_flow_kg_s, RSub(One, f_moisture))>>

\* days_to_maturity_from_k guarding only negative rates (k < 0), so k = 0 divides
days_to_maturity_zero_divides(k_per_day) ==
  IF RLt(k_per_day, Zero) THEN Inf ELSE RDiv(One, k_per_day)

days_to_maturity_from_k(k_per_day) ==
  IF RLe(k_per_day, Zero) THEN Inf ELSE RDiv(One, k_per_day)

\* days_retention > 0 and not np.isinf(days_retention)
PositiveFinite(x) == ~IsInf(x) /\ RLt(Zero, x)

\* reactor_mass_kg guarding the infinite retention only
reactor_mass_infinite_only(total_slurry_flow_kg_s, retention_days) ==
  IF IsInf(retention_days) THEN Zero
  ELSE RMul(RMul(total_slurry_flow_kg_s, retention_days), Q(SECONDS_PER_DAY, 1))

reactor_mass_kg(total_slurry_flow_kg_s, retention_days) ==
  IF ~PositiveFinite(retention_days) THEN Zero
  ELSE RMul(RMul(total_slurry_flow_kg_s, retention_days), Q(SECONDS_PER_DAY, 1))

\* methane_production with the peak zeroed like the volume when retention is degenerate
methane_production_peak_gated(moisture_rich_biomass_kg_s, moisture_content_pct, days_retention) ==
  LET dry_matter_kg_s ==
        RMul(moisture_rich_biomass_kg_s, RSub(One, RDiv(moisture_content_pct, Hundred)))
      vs_flow_kg_s == RMul(dry_matter_kg_s, VS_FRACTION)
      vs_per_day_kg == RMul(vs_flow_kg_s, Q(SECONDS_PER_DAY, 1))
      avg_daily_m3 == RMul(vs_per_day_kg, SMY)
      peak_daily_m3 ==
        IF PositiveFinite(days_retention) THEN RMul(avg_daily_m3, PEAK_TO_AVG_FACTOR) ELSE Zero
      biogas_over_retention_m3 ==
        IF PositiveFinite(days_retention) THEN RMul(avg_daily_m3, days_retention) ELSE Zero
      methane_mass_kg == RMul(biogas_over_retention_m3, CH4_DENSITY_KG_M3)
  IN  <<avg_daily_m3, peak_daily_m3, biogas_over_retention_m3, methane_mass_kg>>

\* (avg_daily_m3, peak_daily_m3, biogas_over_retention_m3, methane_mass_kg)
methane_production(moisture_rich_biomass_kg_s, moisture_content_pct, days_retention) ==
  LET dry_matter_kg_s ==
        RMul(moisture_rich_biomass_kg_s, RSub(One, RDiv(moisture_content_pct, Hundred)))
      vs_flow_kg_s == RMul(dry_matter_kg_s, VS_FRACTION)
      vs_per_day_kg == RMul(vs_flow_kg_s, Q(SECONDS_PER_DAY, 1))
      avg_daily_m3 == RMul(vs_per_day_kg, SMY)
      peak_daily_m3 == RMul(avg_daily_m3, PEAK_TO_AVG_FACTOR)
      biogas_over_retention_m3 ==
        IF PositiveFinite(days_retention) THEN RMul(avg_daily_m3, days_retention) ELSE Zero
      methane_mass_kg == RMul(biogas_over_retention_m3, CH4_DENSITY_KG_M3)
  IN  <<avg_daily_m3, peak_daily_m3, biogas_over_retention_m3, methane_mass_kg>>

(***************************************************************************)
(* Arrhenius kinetics and the BiogasKinetics class (biogas_engine.py).     *)
(*                                                                         *)
(* np.exp is irrational.  The model takes exp(0) = 1 and, for the          *)
(* activation energies and temperatures of EXP_TABLE, the float value      *)
(* rounded to five significant digits: rows <<Ea, T (C),                   *)
(* 10^15 * exp(-Ea / (R_GAS * T_K))>>.                                      *)
(*                                                                         *)
(* An instance is the record of its attributes; an attribute holding None  *)
(* is Unset, one holding the value v is Some(v).  A call on an instance    *)
(* gives [self, ret]: the instance as the call leaves it and Returned(v)   *)
(* or the exception raised.                                                *)
(***************************************************************************)
R_GAS == Q(8314, 1000)
Ea_DEFAULT == 60000
LHV_BIOGAS == 21
DEFAULT_METHANE_PURITY == Q(60, 100)

EXP_TABLE == << <<60000, 25, 30752>>, <<60000, 35, 67454>>, <<60000, 45, 140831>> >>

\* 10^-15
ExpScale == RMul(Q(1, 100000), RMul(Q(1, 100000), Q(1, 100000)))

celsius_to_kelvin(T_C) == RAdd(T_C, Q(27315, 100))

\* the exponent -Ea / (R_GAS * T_K) of row i of EXP_TABLE
ExpArg(i) ==
  RNeg(RDiv(Q(EXP_TABLE[i][1], 1), RMul(R_GAS, celsius_to_kelvin(Q(EXP_TABLE[i][2], 1)))))

\* np.exp(x)
Exp(x) ==
  IF IsZero(x) THEN One
  ELSE RMul(Q(EXP_TABLE[CHOOSE i \in 1..Len(EXP_TABLE) : REq(x, ExpArg(i))][3], 1), ExpScale)

\* a float division by 0.0 raises
ZeroDivisionError == [raised |-> "ZeroDivisionError"]

Raised(r) == "raised" \in DOMAIN r

\* A * np.exp(-Ea / (R_GAS * T_K)), or the exception of the division
reaction_rate_constant_k(A, Ea, T_K) ==
  IF IsZero(RMul(R_GAS, T_K)) THEN ZeroDivisionError
  ELSE RMul(A, Exp(RNeg(RDiv(Ea, RMul(R_GAS, T_K)))))

ignition_power_kw(peak_daily_m3_per_day) ==
  RMul(RMul(RDiv(peak_daily_m3_per_day, Q(SECONDS_PER_DAY, 1)), Q(LHV_BIOGAS, 1)), Q(1000, 1))

\* BiogasKinetics.__init__
BiogasKinetics(total_mass_flow_kg_s, moisture_content_pct, temperature_C, added_water_ratio, A, Ea) ==
  [total_mass_flow_kg_s |-> total_mass_flow_kg_s,
   moisture_content_pct |-> moisture_content_pct,
   temperature_C |-> temperature_C,
   added_water_ratio |-> added_water_ratio,
   A |-> A,
   Ea |-> Ea,
   _added_water_kg_s |-> Unset,
   _total_slurry_kg_s |-> Unset,
   _final_total_solids_pct |-> Unset,
   _high_solids_warning |-> Unset,
   _reactor_mass_kg |-> Unset,
   _moisture_rich_kg_s |-> Unset,
   _moisture_lean_kg_s |-> Unset,
   _k_per_day |-> Unset,
   _days_to_maturity |-> Unset,
   _V_total_m3 |-> Unset,
   _avg_daily_m3 |-> Unset,
   _peak_daily_m3 |-> Unset,
   _methane_mass_kg |-> Unset,
   _ignition_power_kw |-> Unset,
   _methane_purity |-> Some(DEFAULT_METHANE_PURITY)]

\* the attributes run() assigns
DerivedFields ==
  {"_added_water_kg_s", "_total_slurry_kg_s", "_final_total_solids_pct",
   "_high_solids_warning", "_reactor_mass_kg", "_moisture_rich_kg_s",
   "_moisture_lean_kg_s", "_k_per_day", "_days_to_maturity", "_V_total_m3",
   "_avg_daily_m3", "_peak_daily_m3", "_methane_mass_kg", "_ignition_power_kw"}

Returned(v) == [value |-> v]

\* the tuple assignment of water_dilution_mass_balance's result t
AssignDilution(self, t) ==
  [self EXCEPT !._added_water_kg_s = Some(t[1]),
               !._total_slurry_kg_s = Some(t[2]),
               !._final_total_solids_pct = Some(t[3]),
               !._high_solids_warning = Some(t[4])]

\* the tuple assignment of partition_feedstock's result t
AssignPartition(self, t) ==
  [self EXCEPT !._moisture_rich_kg_s = Some(t[1]), !._moisture_lean_kg_s = Some(t[2])]

\* the tuple assignment of methane_production's result t
AssignMethane(self, t) ==
  [self EXCEPT !._avg_daily_m3 = Some(t[1]),
               !._peak_daily_m3 = Some(t[2]),
               !._V_total_m3 = Some(t[3]),
               !._methane_mass_kg = Some(t[4])]

\* run(): dry_matter_pct and the water dilution
RunDilution(self) ==
  AssignDilution(self,
    water_dilution_mass_balance(self.total_mass_flow_kg_s,
                                RSub(Hundred, self.moisture_content_pct),
                                self.added_water_ratio))

\* run(): the partition of the raw feedstock
RunPartition(self) ==
  AssignPartition(self, partition_feedstock(self.total_mass_flow_kg_s, self.moisture_content_pct))

RunDays(self) ==
  [self EXCEPT !._days_to_maturity = Some(days_to_maturity_from_k(self._k_per_day[1]))]

RunReactor(self) ==
  [self EXCEPT !._reactor_mass_kg =
     Some(reactor_mass_kg(self._total_slurry_kg_s[1], self._days_to_maturity[1]))]

RunMethane(self) ==
  AssignMethane(self,
    methane_production(self._moisture_rich_kg_s[1], self.moisture_content_pct,
                       self._days_to_maturity[1]))

RunIgnition(self) ==
  [self EXCEPT !._ignition_power_kw = Some(ignition_power_kw(self._peak_daily_m3[1]))]

\* run() from the result k of reaction_rate_constant_k on: an exception leaves the
\* attributes assigned so far, a rate is assigned and the rest of run() follows
RunFromRate(self, k) ==
  IF Raised(k) THEN [self |-> self, ret |-> k]
  ELSE [self |-> RunIgnition(RunMethane(RunReactor(RunDays([self EXCEPT !._k_per_day = Some(k)])))),
        ret |-> Returned("self")]

\* run() from T_K = celsius_to_kelvin(self.temperature_C) on
RunKinetics(self) ==
  RunFromRate(self,
    reaction_rate_constant_k(self.A, self.Ea, celsius_to_kelvin(self.temperature_C)))

\* run() partitioning the diluted slurry instead of the raw feedstock
run_partitions_slurry(self) ==
  RunKinetics(AssignPartition(RunDilution(self),
    partition_feedstock(RunDilution(self)._total_slurry_kg_s[1], self.moisture_content_pct)))

\* run() diluting the slurry of the previous evaluation, when there is one
run_dilutes_previous_slurry(self) ==
  RunKinetics(RunPartition(
    AssignDilution(self,
      water_dilution_mass_balance(
        IF self._total_slurry_kg_s = Unset THEN self.total_mass_flow_kg_s
        ELSE self._total_slurry_kg_s[1],
        RSub(Hundred, self.moisture_content_pct),
        self.added_water_ratio))))

\* BiogasKinetics.run
run(self) == RunKinetics(RunPartition(RunDilution(self)))

\* the property names and the attribute each one reads
PropertyField ==
  [added_water_kg_s |-> "_added_water_kg_s",
   total_slurry_kg_s |-> "_total_slurry_kg_s",
   final_total_solids_pct |-> "_final_total_solids_pct",
   high_solids_warning |-> "_high_solids_warning",
   reactor_mass_kg |-> "_reactor_mass_kg",
   moisture_rich_biomass_kg_s |-> "_moisture_rich_kg_s",
   moisture_lean_biomass_kg_s |-> "_moisture_lean_kg_s",
   k_per_day |-> "_k_per_day",
   days_to_maturity |-> "_days_to_maturity",
   V_total_m3 |-> "_V_total_m3",
   avg_daily_m3 |-> "_avg_daily_m3",
   peak_daily_m3 |-> "_peak_daily_m3",
   methane_mass_kg |-> "_methane_mass_kg",
   ignition_power_kw |-> "_ignition_power_kw",
   methane_purity |-> "_methane_purity"]

\* return self._x, after a run() r that may have raised
ReturnField(r, field) ==
  IF Raised(r.ret) THEN r ELSE [self |-> r.self, ret |-> Returned(r.self[field][1])]

\* a property read: run() first when the attribute is None
Property(self, name) ==
  IF self[PropertyField[name]] = Unset THEN ReturnField(run(self), PropertyField[name])
  ELSE [self |-> self, ret |-> Returned(self[PropertyField[name]][1])]

\* volatile_yield_kg of to_dict
VolatileYield(self) ==
  RMul(RMul(RMul(RMul(self._moisture_rich_kg_s[1],
                      RSub(One, RDiv(self.moisture_content_pct, Hundred))),
                 IF IsInf(self._days_to_maturity[1]) THEN Q(30, 1)
                 ELSE self._days_to_maturity[1]),
            Q(SECONDS_PER_DAY, 1)),
       Q(3, 10))

\* the dict to_dict returns after a run() r that may have raised
DictOf(r) ==
  IF Raised(r.ret) THEN r
  ELSE [self |-> r.self,
        ret |-> Returned(
          [name \in DOMAIN PropertyField |-> r.self[PropertyField[name]][1]]
            @@ [volatile_yield_kg |-> VolatileYield(r.self)])]

\* BiogasKinetics.to_dict
to_dict(self) == DictOf(run(self))

(***************************************************************************)
(* Inputs of the kinetics engine.                                          *)
(***************************************************************************)
MaxFlow == 4
MoistureSteps == 8
MaxRatio == 3
MaxRate == 3

\* mass flows in quarters of a kg/s, from one quarter below zero
FlowGrid == {Q(i, 4) : i \in (0 - 1)..MaxFlow}

\* percentages 0..100 in equal steps, the 88 % and 94 % moisture feedstocks and
\* their dry matter (12 %, 6 %), and 36 % (12 % once diluted 1:2)
PctGrid ==
  {Q(100 * i, MoistureSteps) : i \in 0..MoistureSteps}
    \cup {Q(6, 1), Q(12, 1), Q(36, 1), Q(88, 1), Q(94, 1)}

\* added water per kg of biomass, in halves; -1 and below empty the slurry
RatioGrid == {Q(i, 2) : i \in (0 - 2)..(2 * MaxRatio)}

\* rate constants k (1/day): non-positive, and positive fractions and multiples
RateGrid == {Q(i, 1) : i \in (0 - 1)..MaxRate} \cup {Q(1, 30 * i) : i \in 1..MaxRate}

RetentionGrid == {Inf} \cup {days_to_maturity_from_k(k) : k \in RateGrid} \cup {Zero, Q(0 - 5, 1)}

MaxMass == 2
MaxWater == 1

\* constructor arguments: mass flows in halves of a kg/s from one half below zero
InstanceFlowGrid == {Q(i, 2) : i \in (0 - 1)..MaxMass}

\* the 88 % moisture feedstock, and water alone
InstanceMoistureGrid == {Q(88, 1), Q(100, 1)}

\* 25 C and 35 C, and the temperature whose Kelvin value is 0
InstanceTempGrid == {Q(0 - 27315, 100), Q(25, 1), Q(35, 1)}

InstanceRatioGrid == {Q(i, 1) : i \in 0..MaxWater}

\* pre-exponential factors: 0, and the default 1e10
FactorGrid == {Zero, RMul(Q(100000, 1), Q(100000, 1))}

ActivationGrid == {Zero, Q(Ea_DEFAULT, 1)}

\* the instances BiogasKinetics(...) of the grids
Instances ==
  {BiogasKinetics(m, p, T, r, A, Ea) :
     m \in InstanceFlowGrid, p \in InstanceMoistureGrid, T \in InstanceTempGrid,
     r \in InstanceRatioGrid, A \in FactorGrid, Ea \in ActivationGrid}

WaterDilution ==
  /\ op = "init"
  /\ \E m \in FlowGrid, dm \in PctGrid, r \in RatioGrid :
    /\ op' = "water_dilution_mass_balance"
    /\ args' = <<m, dm, r>>
    /\ ret' = water_dilution_mass_balance(m, dm, r)
    /\ UNCHANGED <<df, kin, loader, session_state>>

PartitionFeedstock ==
  /\ op = "init"
  /\ \E m \in FlowGrid, p \in PctGrid :
    /\ op' = "partition_feedstock"
    /\ args' = <<m, p>>
    /\ ret' = partition_feedstock(m, p)
    /\ UNCHANGED <<df, kin, loader, session_state>>

DaysToMaturity ==
  /\ op = "init"
  /\ \E k \in RateGrid :
    /\ op' = "days_to_maturity_from_k"
    /\ args' = <<k>>
    /\ ret' = days_to_maturity_from_k(k)
    /\ UNCHANGED <<df, kin, loader, session_state>>

MethaneProduction ==
  /\ op = "init"
  /\ \E m \in FlowGrid, p \in PctGrid, days \in RetentionGrid :
    /\ op' = "methane_production"
    /\ args' = <<m, p, days>>
    /\ ret' = methane_production(m, p, days)
    /\ UNCHANGED <<df, kin, loader, session_state>>

ReactorMass ==
  /\ op = "init"
  /\ \E slurry \in FlowGrid, days \in RetentionGrid :
    /\ op' = "reactor_mass_kg"
    /\ args' = <<slurry, days>>
    /\ ret' = reactor_mass_kg(slurry, days)
    /\ UNCHANGED <<df, kin, loader, session_state>>

\* BiogasKinetics(...).to_dict() evaluated for two instances that differ in
\* added_water_ratio only
EvaluateTwice ==
  /\ op = "init"
  /\ \E self \in Instances, r \in InstanceRatioGrid :
    /\ op' = "to_dict"
    /\ args' = <<self, [self EXCEPT !.added_water_ratio = r]>>
    /\ ret' = <<to_dict(self).ret, to_dict([self EXCEPT !.added_water_ratio = r]).ret>>
    /\ UNCHANGED <<df, kin, loader, session_state>>

NextKinetics ==
  \/ WaterDilution
  \/ PartitionFeedstock
  \/ DaysToMaturity
  \/ MethaneProduction
  \/ ReactorMass
  \/ EvaluateTwice

SpecKinetics == Init /\ [][NextKinetics]_vars

(***************************************************************************)
(* One BiogasKinetics instance and the calls made on it.                   *)
(***************************************************************************)
InitInstance ==
  /\ op = "__init__"
  /\ args = <<>>
  /\ ret = <<>>
  /\ df = NoDataFrame
  /\ kin \in Instances
  /\ LoaderInit
  /\ SessionInit

\* a call on the instance with outcome r = [self, ret]
Call(name, arguments, r) ==
  /\ op' = name
  /\ args' = arguments
  /\ kin' = r.self
  /\ ret' = r.ret
  /\ UNCHANGED <<df, loader, session_state>>

Run == Call("run", <<>>, run(kin))

ReadProperty == \E name \in DOMAIN PropertyField : Call("property", <<name>>, Property(kin, name))

ToDict == Call("to_dict", <<>>, to_dict(kin))

NextInstance == Run \/ ReadProperty \/ ToDict

SpecInstance == InitInstance /\ [][NextInstance]_vars

(***************************************************************************)
(* Boiler thermal-balance engine (boiler_engine.py).                       *)
(***************************************************************************)
CP_WATER_KJ_KG_K == Q(418, 100)
LHV_METHANE_KJ_KG == 50000

\* saturated vapour enthalpy h_g (kJ/kg) at temperature (C)
STEAM_H_TABLE ==
  << <<100, 2676>>, <<160, 2758>>, <<180, 2778>>, <<200, 2793>>, <<250, 2801>> >>

\* saturated liquid enthalpy h_f (kJ/kg) at the same temperatures
STEAM_H_F_TABLE ==
  << <<100, 419>>, <<160, 675>>, <<180, 763>>, <<200, 852>>, <<250, 1085>> >>

\* np.array([t for t, _ in table]) and np.array([h for _, h in table])
Column(table, c) == [i \in 1..Len(table) |-> Q(table[i][c], 1)]

\* the last index j, from j on, with xp[j] <= x (x >= xp[j] given)
RECURSIVE Bracket(_, _, _)
Bracket(x, xp, j) ==
  IF j = Len(xp) THEN j
  ELSE IF RLt(x, xp[j + 1]) THEN j
  ELSE Bracket(x, xp, j + 1)

\* np.interp(x, xp, fp) for increasing xp: linear inside, the end values outside
Interp(x, xp, fp) ==
  IF RLt(x, xp[1]) THEN fp[1]
  ELSE IF RLt(xp[Len(xp)], x) THEN fp[Len(fp)]
  ELSE LET j == Bracket(x, xp, 1)
       IN  IF j = Len(xp) \/ REq(x, xp[j]) THEN fp[j]
           ELSE LET slope == RDiv(RSub(fp[j + 1], fp[j]), RSub(xp[j + 1], xp[j]))
                IN  RAdd(RMul(slope, RSub(x, xp[j])), fp[j])

\* h_saturated_steam_kj_kg continuing the first and last segments outside the table
h_saturated_steam_extrapolated(T_C) ==
  LET temps == Column(STEAM_H_TABLE, 1)
      enthalpies == Column(STEAM_H_TABLE, 2)
      n == Len(temps)
      first == RDiv(RSub(enthalpies[2], enthalpies[1]), RSub(temps[2], temps[1]))
      last == RDiv(RSub(enthalpies[n], enthalpies[n - 1]), RSub(temps[n], temps[n - 1]))
  IN  IF RLe(T_C, temps[1]) THEN RAdd(enthalpies[1], RMul(first, RSub(T_C, temps[1])))
      ELSE IF RLe(temps[n], T_C) THEN RAdd(enthalpies[n], RMul(last, RSub(T_C, temps[n])))
      ELSE Interp(T_C, temps, enthalpies)

h_saturated_steam_kj_kg(T_C) ==
  LET temps == Column(STEAM_H_TABLE, 1)
      enthalpies == Column(STEAM_H_TABLE, 2)
  IN  IF RLe(T_C, temps[1]) THEN enthalpies[1]
      ELSE IF RLe(temps[Len(temps)], T_C) THEN enthalpies[Len(enthalpies)]
      ELSE Interp(T_C, temps, enthalpies)

\* h_saturated_liquid_kj_kg whose upper clamp returns the first row (enthalpies[0])
h_saturated_liquid_upper_clamp_first(T_C) ==
  LET temps == Column(STEAM_H_F_TABLE, 1)
      enthalpies == Column(STEAM_H_F_TABLE, 2)
  IN  IF RLe(T_C, temps[1]) THEN enthalpies[1]
      ELSE IF RLe(temps[Len(temps)], T_C) THEN enthalpies[1]
      ELSE Interp(T_C, temps, enthalpies)

h_saturated_liquid_kj_kg(T_C) ==
  LET temps == Column(STEAM_H_F_TABLE, 1)
      enthalpies == Column(STEAM_H_F_TABLE, 2)
  IN  IF RLe(T_C, temps[1]) THEN enthalpies[1]
      ELSE IF RLe(temps[Len(temps)], T_C) THEN enthalpies[Len(enthalpies)]
      ELSE Interp(T_C, temps, enthalpies)

methane_production_kg_per_day(avg_daily_m3, ch4_density_kg_m3) ==
  RMul(avg_daily_m3, ch4_density_kg_m3)

\* boiler_startup_energy_kj taking the whole vapour enthalpy h_g as latent heat
\* (h_f not subtracted)
boiler_startup_energy_latent_from_hg(boiler_water_capacity_kg, T_steam_C, T_ambient_C) ==
  LET m == boiler_water_capacity_kg
      Q_sensible == RMul(RMul(m, CP_WATER_KJ_KG_K), RSub(T_steam_C, T_ambient_C))
      h_steam == h_saturated_steam_kj_kg(T_steam_C)
      Q_latent == RMul(m, h_steam)
  IN  <<Q_sensible, Q_latent, RAdd(Q_sensible, Q_latent)>>

\* (Q_sensible_kj, Q_latent_kj, Q_total_kj)
boiler_startup_energy_kj(boiler_water_capacity_kg, T_steam_C, T_ambient_C) ==
  LET m == boiler_water_capacity_kg
      Q_sensible == RMul(RMul(m, CP_WATER_KJ_KG_K), RSub(T_steam_C, T_ambient_C))
      h_steam == h_saturated_steam_kj_kg(T_steam_C)
      h_f == h_saturated_liquid_kj_kg(T_steam_C)
      Q_latent == RMul(m, RSub(h_steam, h_f))
  IN  <<Q_sensible, Q_latent, RAdd(Q_sensible, Q_latent)>>

methane_mass_needed_kg(Q_startup_kj, eta_boiler_pct, lhv_kj_kg) ==
  IF RLe(eta_boiler_pct, Zero) THEN Zero
  ELSE RDiv(Q_startup_kj, RMul(lhv_kj_kg, RDiv(eta_boiler_pct, Hundred)))

\* time_to_steam_minutes testing the available methane only
time_to_steam_efficiency_unchecked(Q_startup_kj, methane_kg_per_day, eta_boiler_pct, lhv_kj_kg) ==
  IF RLe(methane_kg_per_day, Zero) THEN Zero
  ELSE LET methane_kg_s == RDiv(methane_kg_per_day, Q(86400, 1))
           power_kw == RMul(RMul(methane_kg_s, lhv_kj_kg), RDiv(eta_boiler_pct, Hundred))
       IN  IF IsZero(power_kw) THEN Zero
           ELSE RDiv(RDiv(Q_startup_kj, power_kw), Q(60, 1))

time_to_steam_minutes(Q_startup_kj, methane_kg_per_day, eta_boiler_pct, lhv_kj_kg) ==
  IF RLe(methane_kg_per_day, Zero) \/ RLe(eta_boiler_pct, Zero) THEN Zero
  ELSE LET methane_kg_s == RDiv(methane_kg_per_day, Q(86400, 1))
           power_kw == RMul(RMul(methane_kg_s, lhv_kj_kg), RDiv(eta_boiler_pct, Hundred))
       IN  IF RLe(power_kw, Zero) THEN Zero
           ELSE RDiv(RDiv(Q_startup_kj, power_kw), Q(60, 1))

\* min(a, b) of Python: b only when b < a
RMin(a, b) == IF RLt(b, a) THEN b ELSE a

\* max(a, b) of Python: b only when b > a
RMax(a, b) == IF RLt(a, b) THEN b ELSE a

\* partition_methane_per_day giving the boiler max(needed, available)
partition_methane_max(methane_per_day_kg, methane_needed_kg) ==
  IF RLe(methane_per_day_kg, Zero)
  THEN [boiler_kg_per_day |-> Zero, collector_kg_per_day |-> Zero,
        boiler_pct |-> Zero, collector_pct |-> Hundred]
  ELSE LET boiler_kg == RMax(methane_needed_kg, methane_per_day_kg)
           collector_kg == RSub(methane_per_day_kg, boiler_kg)
       IN  [boiler_kg_per_day |-> boiler_kg,
            collector_kg_per_day |-> collector_kg,
            boiler_pct |-> RMul(RDiv(boiler_kg, methane_per_day_kg), Hundred),
            collector_pct |-> RMul(RDiv(collector_kg, methane_per_day_kg), Hundred)]

\* partition_methane_per_day giving the boiler its whole demand, not capped by production
partition_methane_uncapped(methane_per_day_kg, methane_needed_kg) ==
  IF RLe(methane_per_day_kg, Zero)
  THEN [boiler_kg_per_day |-> Zero, collector_kg_per_day |-> Zero,
        boiler_pct |-> Zero, collector_pct |-> Hundred]
  ELSE LET boiler_kg == methane_needed_kg
           collector_kg == RSub(methane_per_day_kg, boiler_kg)
       IN  [boiler_kg_per_day |-> boiler_kg,
            collector_kg_per_day |-> collector_kg,
            boiler_pct |-> RMul(RDiv(boiler_kg, methane_per_day_kg), Hundred),
            collector_pct |-> RMul(RDiv(collector_kg, methane_per_day_kg), Hundred)]

\* partition_methane_per_day taking the collector share from the demand, not from
\* the boiler's capped share
partition_methane_collector_from_demand(methane_per_day_kg, methane_needed_kg) ==
  IF RLe(methane_per_day_kg, Zero)
  THEN [boiler_kg_per_day |-> Zero, collector_kg_per_day |-> Zero,
        boiler_pct |-> Zero, collector_pct |-> Hundred]
  ELSE LET boiler_kg == RMin(methane_needed_kg, methane_per_day_kg)
           collector_kg == RSub(methane_per_day_kg, methane_needed_kg)
       IN  [boiler_kg_per_day |-> boiler_kg,
            collector_kg_per_day |-> collector_kg,
            boiler_pct |-> RMul(RDiv(boiler_kg, methane_per_day_kg), Hundred),
            collector_pct |-> RMul(RDiv(collector_kg, methane_per_day_kg), Hundred)]

\* partition_methane_per_day whose empty split reports 0 % for the collector too
partition_methane_empty_split_zero_pct(methane_per_day_kg, methane_needed_kg) ==
  IF RLe(methane_per_day_kg, Zero)
  THEN [boiler_kg_per_day |-> Zero, collector_kg_per_day |-> Zero,
        boiler_pct |-> Zero, collector_pct |-> Zero]
  ELSE LET boiler_kg == RMin(methane_needed_kg, methane_per_day_kg)
           collector_kg == RSub(methane_per_day_kg, boiler_kg)
       IN  [boiler_kg_per_day |-> boiler_kg,
            collector_kg_per_day |-> collector_kg,
            boiler_pct |-> RMul(RDiv(boiler_kg, methane_per_day_kg), Hundred),
            collector_pct |-> RMul(RDiv(collector_kg, methane_per_day_kg), Hundred)]

\* partition_methane_per_day giving the boiler nothing when the day's production
\* cannot cover its demand
partition_methane_all_or_nothing(methane_per_day_kg, methane_needed_kg) ==
  IF RLe(methane_per_day_kg, Zero)
  THEN [boiler_kg_per_day |-> Zero, collector_kg_per_day |-> Zero,
        boiler_pct |-> Zero, collector_pct |-> Hundred]
  ELSE LET boiler_kg == IF RLt(methane_per_day_kg, methane_needed_kg) THEN Zero
                        ELSE methane_needed_kg
           collector_kg == RSub(methane_per_day_kg, boiler_kg)
       IN  [boiler_kg_per_day |-> boiler_kg,
            collector_kg_per_day |-> collector_kg,
            boiler_pct |-> RMul(RDiv(boiler_kg, methane_per_day_kg), Hundred),
            collector_pct |-> RMul(RDiv(collector_kg, methane_per_day_kg), Hundred)]

partition_methane_per_day(methane_per_day_kg, methane_needed_kg) ==
  IF RLe(methane_per_day_kg, Zero)
  THEN [boiler_kg_per_day |-> Zero, collector_kg_per_day |-> Zero,
        boiler_pct |-> Zero, collector_pct |-> Hundred]
  ELSE LET boiler_kg == RMin(methane_needed_kg, methane_per_day_kg)
           collector_kg == RSub(methane_per_day_kg, boiler_kg)
       IN  [boiler_kg_per_day |-> boiler_kg,
            collector_kg_per_day |-> collector_kg,
            boiler_pct |-> RMul(RDiv(boiler_kg, methane_per_day_kg), Hundred),
            collector_pct |-> RMul(RDiv(collector_kg, methane_per_day_kg), Hundred)]

T_AMBIENT_DEFAULT == Q(25, 1)

boiler_balance(eta_boiler_pct, T_steam_C, avg_daily_methane_m3, boiler_water_capacity_kg, ch4_density_kg_m3) ==
  LET E == boiler_startup_energy_kj(boiler_water_capacity_kg, T_steam_C, T_AMBIENT_DEFAULT)
      Q_startup == E[3]
      methane_needed_kg ==
        methane_mass_needed_kg(Q_startup, eta_boiler_pct, Q(LHV_METHANE_KJ_KG, 1))
      methane_per_day_kg ==
        methane_production_kg_per_day(avg_daily_methane_m3, ch4_density_kg_m3)
      time_to_steam_min ==
        time_to_steam_minutes(Q_startup, methane_per_day_kg, eta_boiler_pct,
                              Q(LHV_METHANE_KJ_KG, 1))
      part == partition_methane_per_day(methane_per_day_kg, methane_needed_kg)
  IN  [boiler_water_capacity_kg |-> boiler_water_capacity_kg,
       Q_startup_kj |-> Q_startup,
       Q_sensible_kj |-> E[1],
       Q_latent_kj |-> E[2],
       methane_needed_kg |-> methane_needed_kg,
       methane_per_day_kg |-> methane_per_day_kg,
       startup_time_minutes |-> time_to_steam_min,
       boiler_kg_per_day |-> part.boiler_kg_per_day,
       collector_kg_per_day |-> part.collector_kg_per_day,
       boiler_pct |-> part.boiler_pct,
       collector_pct |-> part.collector_pct,
       eta_boiler_pct |-> eta_boiler_pct,
       T_steam_C |-> T_steam_C]

(***************************************************************************)
(* Inputs of the boiler engine.                                            *)
(***************************************************************************)
MaxMethane == 6
MaxTempIdx == 15
MaxDaily == 4

\* methane masses (kg, kg/day) in halves, from one kg below zero
MethaneGrid == {Q(i, 2) : i \in (0 - 2)..(2 * MaxMethane)}

\* temperatures 0, 20, .. C, and the tabulated 250 C
TempGrid == {Q(20 * i, 1) : i \in 0..MaxTempIdx} \cup {Q(250, 1)}

\* boiler efficiencies (%): the 1..99 of the form, and 0 and below
EtaPctGrid == {Q(0 - 5, 1), Q(0, 1), Q(1, 1), Q(50, 1), Q(85, 1), Q(99, 1)}

\* average daily methane (m3/day) from the kinetics engine: 0, 5, 25, 125, ..
\* and one negative value
DailyGrid == {Q(0 - 5, 1), Q(0, 1)} \cup {Q(5 ^ i, 1) : i \in 1..MaxDaily}

CapacityGrid == {Q(1, 1), Q(200, 1)}

\* startup energies (kJ) of the direct calls
EnergyGrid == {Q(0 - 1000, 1), Q(0, 1), Q(1000, 1), Q(532580, 1)}

PartitionMethanePerDay ==
  /\ op = "init"
  /\ \E pd \in MethaneGrid, nd \in MethaneGrid :
    /\ op' = "partition_methane_per_day"
    /\ args' = <<pd, nd>>
    /\ ret' = partition_methane_per_day(pd, nd)
    /\ UNCHANGED <<df, kin, loader, session_state>>

MethaneMassNeeded ==
  /\ op = "init"
  /\ \E Qs \in EnergyGrid, eta \in EtaPctGrid :
    /\ op' = "methane_mass_needed_kg"
    /\ args' = <<Qs, eta>>
    /\ ret' = methane_mass_needed_kg(Qs, eta, Q(LHV_METHANE_KJ_KG, 1))
    /\ UNCHANGED <<df, kin, loader, session_state>>

TimeToSteam ==
  /\ op = "init"
  /\ \E Qs \in EnergyGrid, pd \in MethaneGrid, eta \in EtaPctGrid :
    /\ op' = "time_to_steam_minutes"
    /\ args' = <<Qs, pd, eta>>
    /\ ret' = time_to_steam_minutes(Qs, pd, eta, Q(LHV_METHANE_KJ_KG, 1))
    /\ UNCHANGED <<df, kin, loader, session_state>>

BoilerBalance ==
  /\ op = "init"
  /\ \E eta \in EtaPctGrid, T \in TempGrid, avg \in DailyGrid, cap \in CapacityGrid :
    /\ op' = "boiler_balance"
    /\ args' = <<eta, T, avg, cap>>
    /\ ret' = boiler_balance(eta, T, avg, cap, CH4_DENSITY_KG_M3)
    /\ UNCHANGED <<df, kin, loader, session_state>>

NextBoiler == PartitionMethanePerDay \/ MethaneMassNeeded \/ TimeToSteam \/ BoilerBalance

SpecBoiler == Init /\ [][NextBoiler]_vars

(***************************************************************************)
(* Power-cycle engine (power_cycle_engine.py).                             *)
(*                                                                         *)
(* pressure_ratio ** ((gamma - 1) / gamma) is irrational.  The model takes *)
(* the float power rounded to four decimals, for the pressure ratios of    *)
(* POW_TABLE: rows <<2 * pressure_ratio, 10^4 * pr ** (0.4 / 1.4),         *)
(* 10^4 * pr ** (0.33 / 1.33)>>.                                           *)
(***************************************************************************)
POW_TABLE ==
  << <<3, 11228, 11058>>, <<4, 12190, 11877>>, <<10, 15838, 14908>>,
     <<20, 19307, 17706>>, <<60, 26426, 23254>> >>

PowRow(pressure_ratio) ==
  CHOOSE i \in 1..Len(POW_TABLE) : REq(pressure_ratio, Q(POW_TABLE[i][1], 2))

\* pressure_ratio ** ((gamma_air - 1) / gamma_air), gamma_air = 1.4
PowAir(pressure_ratio) == Q(POW_TABLE[PowRow(pressure_ratio)][2], 10000)

\* pressure_ratio ** ((gamma_gas - 1) / gamma_gas), gamma_gas = 1.33
PowGas(pressure_ratio) == Q(POW_TABLE[PowRow(pressure_ratio)][3], 10000)

KELVIN_OFFSET == Q(27315, 100)
cp_air == Q(1005, 1000)
cp_gas == Q(115, 100)
LHV_biogas_kJ_m3 == 21500
LHV_volatiles_kJ_kg == 4000

\* power_cycle_logic reporting a net power clamped at zero when the compressor
\* load exceeds the turbine work
power_cycle_net_clamped(biogas_vol_m3, volatile_mass_kg, air_mass_flow_kg_s, pressure_ratio, eta_compressor, eta_turbine, eta_generator, t_ambient_c) ==
  LET T_ambient_K == RAdd(t_ambient_c, KELVIN_OFFSET)
      T2_s_K == RMul(T_ambient_K, PowAir(pressure_ratio))
      T2_actual_K == RAdd(T_ambient_K, RDiv(RSub(T2_s_K, T_ambient_K), eta_compressor))
      W_comp_kW == RMul(RMul(air_mass_flow_kg_s, cp_air), RSub(T2_actual_K, T_ambient_K))
      Q_dot_fuel_kW ==
        RAdd(RDiv(RMul(biogas_vol_m3, Q(LHV_biogas_kJ_m3, 1)), Q(1440, 1)),
             RDiv(RMul(volatile_mass_kg, Q(LHV_volatiles_kJ_kg, 1)), Q(60, 1)))
      T3_actual_K ==
        RAdd(T2_actual_K, RDiv(Q_dot_fuel_kW, RMul(air_mass_flow_kg_s, cp_gas)))
      T4_s_K == RDiv(T3_actual_K, PowGas(pressure_ratio))
      T4_actual_K == RSub(T3_actual_K, RMul(eta_turbine, RSub(T3_actual_K, T4_s_K)))
      W_turbine_kW == RMul(RMul(air_mass_flow_kg_s, cp_gas), RSub(T3_actual_K, T4_actual_K))
      P_net_mech_kW == RSub(W_turbine_kW, W_comp_kW)
      P_elec_kWe == IF P_net_mech_kW.neg THEN Zero ELSE RMul(P_net_mech_kW, eta_generator)
  IN  IF IsZero(eta_compressor) THEN ZeroDivisionError
      ELSE IF IsZero(RMul(air_mass_flow_kg_s, cp_gas)) THEN ZeroDivisionError
      ELSE [T2_C |-> RSub(T2_actual_K, KELVIN_OFFSET),
            T3_C |-> RSub(T3_actual_K, KELVIN_OFFSET),
            T4_C |-> RSub(T4_actual_K, KELVIN_OFFSET),
            W_Comp_kW |-> W_comp_kW,
            W_Turb_kW |-> W_turbine_kW,
            Net_Power_kWe |-> P_elec_kWe,
            Thermal_Input_kW |-> Q_dot_fuel_kW,
            pressure_ratio |-> pressure_ratio,
            t_ambient_C |-> t_ambient_c]

\* power_cycle_logic taking the net as compressor work minus turbine work
power_cycle_net_reversed(biogas_vol_m3, volatile_mass_kg, air_mass_flow_kg_s, pressure_ratio, eta_compressor, eta_turbine, eta_generator, t_ambient_c) ==
  LET T_ambient_K == RAdd(t_ambient_c, KELVIN_OFFSET)
      T2_s_K == RMul(T_ambient_K, PowAir(pressure_ratio))
      T2_actual_K == RAdd(T_ambient_K, RDiv(RSub(T2_s_K, T_ambient_K), eta_compressor))
      W_comp_kW == RMul(RMul(air_mass_flow_kg_s, cp_air), RSub(T2_actual_K, T_ambient_K))
      Q_dot_fuel_kW ==
        RAdd(RDiv(RMul(biogas_vol_m3, Q(LHV_biogas_kJ_m3, 1)), Q(1440, 1)),
             RDiv(RMul(volatile_mass_kg, Q(LHV_volatiles_kJ_kg, 1)), Q(60, 1)))
      T3_actual_K ==
        RAdd(T2_actual_K, RDiv(Q_dot_fuel_kW, RMul(air_mass_flow_kg_s, cp_gas)))
      T4_s_K == RDiv(T3_actual_K, PowGas(pressure_ratio))
      T4_actual_K == RSub(T3_actual_K, RMul(eta_turbine, RSub(T3_actual_K, T4_s_K)))
      W_turbine_kW == RMul(RMul(air_mass_flow_kg_s, cp_gas), RSub(T3_actual_K, T4_actual_K))
      P_net_mech_kW == RSub(W_comp_kW, W_turbine_kW)
      P_elec_kWe == RMul(P_net_mech_kW, eta_generator)
  IN  IF IsZero(eta_compressor) THEN ZeroDivisionError
      ELSE IF IsZero(RMul(air_mass_flow_kg_s, cp_gas)) THEN ZeroDivisionError
      ELSE [T2_C |-> RSub(T2_actual_K, KELVIN_OFFSET),
            T3_C |-> RSub(T3_actual_K, KELVIN_OFFSET),
            T4_C |-> RSub(T4_actual_K, KELVIN_OFFSET),
            W_Comp_kW |-> W_comp_kW,
            W_Turb_kW |-> W_turbine_kW,
            Net_Power_kWe |-> P_elec_kWe,
            Thermal_Input_kW |-> Q_dot_fuel_kW,
            pressure_ratio |-> pressure_ratio,
            t_ambient_C |-> t_ambient_c]

power_cycle_logic(biogas_vol_m3, volatile_mass_kg, air_mass_flow_kg_s, pressure_ratio, eta_compressor, eta_turbine, eta_generator, t_ambient_c) ==
  LET T_ambient_K == RAdd(t_ambient_c, KELVIN_OFFSET)
      T2_s_K == RMul(T_ambient_K, PowAir(pressure_ratio))
      T2_actual_K == RAdd(T_ambient_K, RDiv(RSub(T2_s_K, T_ambient_K), eta_compressor))
      W_comp_kW == RMul(RMul(air_mass_flow_kg_s, cp_air), RSub(T2_actual_K, T_ambient_K))
      Q_dot_fuel_kW ==
        RAdd(RDiv(RMul(biogas_vol_m3, Q(LHV_biogas_kJ_m3, 1)), Q(1440, 1)),
             RDiv(RMul(volatile_mass_kg, Q(LHV_volatiles_kJ_kg, 1)), Q(60, 1)))
      T3_actual_K ==
        RAdd(T2_actual_K, RDiv(Q_dot_fuel_kW, RMul(air_mass_flow_kg_s, cp_gas)))
      T4_s_K == RDiv(T3_actual_K, PowGas(pressure_ratio))
      T4_actual_K == RSub(T3_actual_K, RMul(eta_turbine, RSub(T3_actual_K, T4_s_K)))
      W_turbine_kW == RMul(RMul(air_mass_flow_kg_s, cp_gas), RSub(T3_actual_K, T4_actual_K))
      P_net_mech_kW == RSub(W_turbine_kW, W_comp_kW)
      P_elec_kWe == RMul(P_net_mech_kW, eta_generator)
  IN  IF IsZero(eta_compressor) THEN ZeroDivisionError
      ELSE IF IsZero(RMul(air_mass_flow_kg_s, cp_gas)) THEN ZeroDivisionError
      ELSE [T2_C |-> RSub(T2_actual_K, KELVIN_OFFSET),
            T3_C |-> RSub(T3_actual_K, KELVIN_OFFSET),
            T4_C |-> RSub(T4_actual_K, KELVIN_OFFSET),
            W_Comp_kW |-> W_comp_kW,
            W_Turb_kW |-> W_turbine_kW,
            Net_Power_kWe |-> P_elec_kWe,
            Thermal_Input_kW |-> Q_dot_fuel_kW,
            pressure_ratio |-> pressure_ratio,
            t_ambient_C |-> t_ambient_c]

(***************************************************************************)
(* Inputs of the power-cycle engine.                                       *)
(***************************************************************************)
MaxFuel == 1
MaxAir == 2

\* biogas volume (m3): 0, 50, ..
BiogasGrid == {Q(50 * i, 1) : i \in 0..MaxFuel}

\* volatile mass (kg): 0 and 1
VolatileGrid == {Q(0, 1), Q(1, 1)}

\* air mass flow (kg/s): 0 (outside the domain), 0.5, 1, ..
AirGrid == {Q(i, 2) : i \in 0..MaxAir}

PressureRatioGrid == {Q(4, 2), Q(20, 2)}

\* efficiencies as 0..1 fractions: the form's 75 %, 85 %, 94 % defaults, 0 and 1
EtaCompressorGrid == {Q(0, 1), Q(75, 100)}
EtaTurbineGrid == {Q(85, 100), Q(1, 1)}
EtaGeneratorGrid == {Q(0, 1), Q(94, 100), Q(1, 1)}

AmbientGrid == {Q(0 - 20, 1), Q(25, 1)}

PowerCycleLogic ==
  /\ op = "init"
  /\ \E bv \in BiogasGrid, vm \in VolatileGrid, air \in AirGrid, pr \in PressureRatioGrid,
        ec \in EtaCompressorGrid, et \in EtaTurbineGrid, eg \in EtaGeneratorGrid,
        ta \in AmbientGrid :
    /\ op' = "power_cycle_logic"
    /\ args' = [biogas_vol_m3 |-> bv, volatile_mass_kg |-> vm, air_mass_flow_kg_s |-> air,
                pressure_ratio |-> pr, eta_compressor |-> ec, eta_turbine |-> et,
                eta_generator |-> eg, t_ambient_c |-> ta]
    /\ ret' = power_cycle_logic(bv, vm, air, pr, ec, et, eg, ta)
    /\ UNCHANGED <<df, kin, loader, session_state>>

NextPower == PowerCycleLogic

SpecPower == Init /\ [][NextPower]_vars

(***************************************************************************)
(* Steam-property lookup (steam_tables.py) and the built-in 5-point tables *)
(* of boiler_engine.py.                                                    *)
(*                                                                         *)
(* A CSV file is a sequence of rows <<P (MPa) * 10^4, T (C), h_f, h_fg,    *)
(* s_f * 10^3, s_g * 10^3>>, in file order; MissingFile is a path that     *)
(* pd.read_csv cannot read.  The df attribute is a record: isNone for      *)
(* None, else the rows of the DataFrame.                                   *)
(***************************************************************************)
MissingFile == [exists |-> FALSE, rows |-> <<>>]

CsvFile(rows) == [exists |-> TRUE, rows |-> rows]

CSV_BY_PRESSURE ==
  << <<124, 50, 209, 2382, 704, 8075>>,
     <<1014, 100, 419, 2256, 1307, 7354>>,
     <<15550, 200, 852, 1940, 2331, 6430>>,
     <<85880, 300, 1345, 1405, 3255, 5706>> >>

CSV_UNORDERED ==
  << <<15550, 200, 852, 1940, 2331, 6430>>,
     <<124, 50, 209, 2382, 704, 8075>>,
     <<85880, 300, 1345, 1405, 3255, 5706>>,
     <<1014, 100, 419, 2256, 1307, 7354>> >>

\* a file with the "P (MPa)" column only: sort_values("T (C)") raises KeyError
CSV_WITHOUT_T == << <<124>>, <<1014>>, <<15550>>, <<85880>> >>

CsvFiles ==
  {MissingFile, CsvFile(CSV_WITHOUT_T), CsvFile(CSV_BY_PRESSURE), CsvFile(CSV_UNORDERED)}

\* the try block of SteamTableLookup.__init__ completes: the file is there and
\* has its columns
Loads(file) ==
  file.exists /\ \A i \in 1..Len(file.rows) : Len(file.rows[i]) = 6

\* pd.read_csv: one record of floats per row
ReadRow(r) ==
  [P |-> Q(r[1], 10000), T |-> Q(r[2], 1), hf |-> Q(r[3], 1), hfg |-> Q(r[4], 1),
   sf |-> Q(r[5], 1000), sg |-> Q(r[6], 1000)]

\* a row put after the rows of temperature <= its own (stable)
RECURSIVE InsertByT(_, _)
InsertByT(row, rows) ==
  IF rows = <<>> THEN <<row>>
  ELSE IF RLt(row.T, Head(rows).T) THEN <<row>> \o rows
  ELSE <<Head(rows)>> \o InsertByT(row, Tail(rows))

\* df.sort_values("T (C)").reset_index(drop=True)
RECURSIVE SortByT(_)
SortByT(rows) ==
  IF rows = <<>> THEN <<>>
  ELSE InsertByT(rows[Len(rows)], SortByT(SubSeq(rows, 1, Len(rows) - 1)))

\* SteamTableLookup.__init__ keeping an empty DataFrame when the load fails
SteamTableLookup_empty_on_error(file) ==
  IF ~Loads(file) THEN DataFrame(<<>>)
  ELSE DataFrame(SortByT([i \in 1..Len(file.rows) |-> ReadRow(file.rows[i])]))

\* SteamTableLookup.__init__: the df attribute
SteamTableLookup(file) ==
  IF ~Loads(file) THEN NoDataFrame
  ELSE DataFrame(SortByT([i \in 1..Len(file.rows) |-> ReadRow(file.rows[i])]))

Temps(table) == [i \in 1..Len(table) |-> table[i].T]

lookup_enthalpy(frame, target_temp) ==
  IF frame.isNone THEN <<None, None>>
  ELSE LET table == frame.rows
           temps == Temps(table)
           n == Len(table)
       IN  IF RLe(target_temp, temps[1]) THEN <<table[1].hf, table[1].hfg>>
           ELSE IF RLe(temps[n], target_temp) THEN <<table[n].hf, table[n].hfg>>
           ELSE <<Interp(target_temp, temps, [i \in 1..n |-> table[i].hf]),
                  Interp(target_temp, temps, [i \in 1..n |-> table[i].hfg])>>

lookup_entropy(frame, target_temp) ==
  IF frame.isNone THEN <<None, None>>
  ELSE LET table == frame.rows
           temps == Temps(table)
           n == Len(table)
       IN  IF RLe(target_temp, temps[1]) THEN <<table[1].sf, table[1].sg>>
           ELSE IF RLe(temps[n], target_temp) THEN <<table[n].sf, table[n].sg>>
           ELSE <<Interp(target_temp, temps, [i \in 1..n |-> table[i].sf]),
                  Interp(target_temp, temps, [i \in 1..n |-> table[i].sg])>>

Pressures(table) == [i \in 1..Len(table) |-> table[i].P]

\* SteamTableLookup.get_sat_temp (the DataFrames here have the "P (MPa)" column)
get_sat_temp(frame, target_pressure) ==
  IF frame.isNone THEN None
  ELSE IF RLe(target_pressure, frame.rows[1].P) THEN frame.rows[1].T
  ELSE IF RLe(frame.rows[Len(frame.rows)].P, target_pressure)
       THEN frame.rows[Len(frame.rows)].T
  ELSE Interp(target_pressure, Pressures(frame.rows), Temps(frame.rows))

\* SteamTableLookup.get_sat_pressure
get_sat_pressure(frame, target_temp) ==
  IF frame.isNone THEN None
  ELSE IF RLe(target_temp, frame.rows[1].T) THEN frame.rows[1].P
  ELSE IF RLe(frame.rows[Len(frame.rows)].T, target_temp)
       THEN frame.rows[Len(frame.rows)].P
  ELSE Interp(target_temp, Temps(frame.rows), Pressures(frame.rows))

(***************************************************************************)
(* SuperheatedLookup.  A row of the superheated CSV is <<P (MPa) * 10,     *)
(* T (C), h, s * 10^3>>, each cell <<v>>, or <<>> where pd.to_numeric      *)
(* finds no number (NaN).  The instance is the record of df (isNone, rows) *)
(* and pressures.                                                          *)
(***************************************************************************)
Cells(P, T, h, s) == << <<P>>, <<T>>, <<h>>, <<s>> >>

SUPERHEATED_CSV ==
  << Cells(1, 100, 2676, 7361), Cells(1, 200, 2875, 7834), Cells(1, 300, 3074, 8216),
     Cells(10, 200, 2828, 6694), Cells(10, 300, 3051, 7123),
     Cells(50, 300, 2925, 6208), Cells(50, 400, 3196, 6646) >>

\* the same rows out of order, and one row without its enthalpy
SUPERHEATED_CSV_UNORDERED ==
  << Cells(50, 400, 3196, 6646), Cells(1, 300, 3074, 8216), Cells(10, 200, 2828, 6694),
     << <<10>>, <<250>>, <<>>, <<6925>> >>,
     Cells(1, 100, 2676, 7361), Cells(50, 300, 2925, 6208), Cells(10, 300, 3051, 7123),
     Cells(1, 200, 2875, 7834) >>

\* a missing file, a file with the header line only, and the two tables
SuperheatedFiles ==
  {MissingFile, CsvFile(<<>>), CsvFile(SUPERHEATED_CSV), CsvFile(SUPERHEATED_CSV_UNORDERED)}

\* dropna(subset=[pressure, temperature, enthalpy, entropy])
NotNa(r) == \A c \in 1..4 : r[c] # <<>>

ReadCells(r) ==
  [P |-> Q(r[1][1], 10), T |-> Q(r[2][1], 1), h |-> Q(r[3][1], 1), s |-> Q(r[4][1], 1000)]

\* row a sorts before row b by (pressure, temperature)
BeforeByPT(a, b) == RLt(a.P, b.P) \/ (REq(a.P, b.P) /\ RLt(a.T, b.T))

RECURSIVE InsertByPT(_, _)
InsertByPT(row, rows) ==
  IF rows = <<>> THEN <<row>>
  ELSE IF BeforeByPT(row, Head(rows)) THEN <<row>> \o rows
  ELSE <<Head(rows)>> \o InsertByPT(row, Tail(rows))

\* df.sort_values(["Pressure (MPa)", "Temperature (C)"]).reset_index(drop=True)
RECURSIVE SortByPT(_)
SortByPT(rows) ==
  IF rows = <<>> THEN <<>>
  ELSE InsertByPT(rows[Len(rows)], SortByPT(SubSeq(rows, 1, Len(rows) - 1)))

\* sorted(df["Pressure (MPa)"].unique()), from the rows sorted by pressure
RECURSIVE UniquePressures(_)
UniquePressures(rows) ==
  IF rows = <<>> THEN <<>>
  ELSE IF Len(rows) > 1 /\ REq(rows[1].P, rows[2].P) THEN UniquePressures(Tail(rows))
  ELSE <<rows[1].P>> \o UniquePressures(Tail(rows))

\* the instance whose df holds the sorted rows
Loaded(rows) == [isNone |-> FALSE, rows |-> rows, pressures |-> UniquePressures(rows)]

\* the rows pd.read_csv, to_numeric and dropna leave
ReadSuperheated(rows) ==
  LET kept == SelectSeq(rows, NotNa)
  IN  [i \in 1..Len(kept) |-> ReadCells(kept[i])]

\* SuperheatedLookup.__init__
SuperheatedLookup(file) ==
  IF ~file.exists THEN [isNone |-> TRUE, rows |-> <<>>, pressures |-> <<>>]
  ELSE Loaded(SortByPT(ReadSuperheated(file.rows)))

\* self.df[self.df["Pressure (MPa)"] == target_pressure].sort_values("Temperature (C)")
Subset(self, target_pressure) ==
  SelectSeq(self.rows, LAMBDA r : REq(r.P, target_pressure))

InterpRows(subset, target_temp) ==
  <<Interp(target_temp, Temps(subset), [i \in 1..Len(subset) |-> subset[i].h]),
    Interp(target_temp, Temps(subset), [i \in 1..Len(subset) |-> subset[i].s])>>

\* SuperheatedLookup._lookup_at_pressure
lookup_at_pressure(self, target_pressure, target_temp) ==
  IF Subset(self, target_pressure) = <<>> THEN <<None, None>>
  ELSE InterpRows(Subset(self, target_pressure), target_temp)

\* np.searchsorted(pressures, x): the first index, from i on, with pressures[i] >= x
RECURSIVE searchsorted(_, _, _)
searchsorted(pressures, x, i) ==
  IF i > Len(pressures) THEN i
  ELSE IF RLe(x, pressures[i]) THEN i
  ELSE searchsorted(pressures, x, i + 1)

\* lo + frac * (hi - lo)
Blend(lo, hi, frac) == RAdd(lo, RMul(frac, RSub(hi, lo)))

\* the second stage with the pressure taken from the lower row only
between_pressures_lower_row(self, lo, hi, p_lo, p_hi, target_pressure) ==
  IF Subset(self, p_lo) = <<>> \/ Subset(self, p_hi) = <<>> THEN <<None, None>>
  ELSE lo

\* the second stage of lookup: between the rows of p_lo and p_hi
between_pressures(self, lo, hi, p_lo, p_hi, target_pressure) ==
  IF Subset(self, p_lo) = <<>> \/ Subset(self, p_hi) = <<>> THEN <<None, None>>
  ELSE <<Blend(lo[1], hi[1], RDiv(RSub(target_pressure, p_lo), RSub(p_hi, p_lo))),
         Blend(lo[2], hi[2], RDiv(RSub(target_pressure, p_lo), RSub(p_hi, p_lo)))>>

LookupBetween(self, idx, target_pressure, target_temp) ==
  between_pressures(self,
    lookup_at_pressure(self, self.pressures[idx - 1], target_temp),
    lookup_at_pressure(self, self.pressures[idx], target_temp),
    self.pressures[idx - 1], self.pressures[idx], target_pressure)

\* SuperheatedLookup.lookup
lookup(self, target_pressure, target_temp) ==
  IF self.isNone \/ Len(self.pressures) = 0 THEN <<None, None>>
  ELSE IF RLe(target_pressure, self.pressures[1])
       THEN lookup_at_pressure(self, self.pressures[1], target_temp)
  ELSE IF RLe(self.pressures[Len(self.pressures)], target_pressure)
       THEN lookup_at_pressure(self, self.pressures[Len(self.pressures)], target_temp)
  ELSE LookupBetween(self, searchsorted(self.pressures, target_pressure, 1),
                     target_pressure, target_temp)

(***************************************************************************)
(* The diagrams of th_diagram.py, as far as they depend on the saturation  *)
(* table.  frame is the df of the instance get_sat_lookup() returns.  A    *)
(* figure is represented by the saturation pressure and the specific       *)
(* enthalpies of its state points 1 (initial), 2 (saturated liquid), 3     *)
(* (saturated vapour) and 5 (return); _h_inlet_and_saturation by h_inlet,  *)
(* h_f and h_g of the tuple it returns.                                    *)
(***************************************************************************)
\* _STEAM_TABLES_AVAILABLE, set when th_diagram is imported
STEAM_TABLES_AVAILABLE(frame) == ~frame.isNone

H_WATER_INLET_KJ_KG == 105

W_INIT_T == 25

T_STEAM_DEFAULT == 180

\* x or y, for a float x
OrElse(x, y) == IF IsZero(x) THEN y ELSE x

\* the state points from the lookups at w_init_t, t_boil and t_cycle_C = t_boil;
\* the df is not None here, so every lookup returned floats
HsFigure(pressure, init, boil) ==
  [pressure |-> pressure,
   h_sp |-> <<init[1], boil[1], RAdd(boil[1], boil[2]), boil[1]>>]

\* build_hs_figure with boiler_result["T_steam_C"] = T_steam_C and the default
\* w_init_t and t_cycle_C
build_hs_figure(frame, T_steam_C) ==
  IF ~STEAM_TABLES_AVAILABLE(frame) THEN None
  ELSE IF frame.isNone THEN None
  ELSE HsFigure(get_sat_pressure(frame, OrElse(T_steam_C, Q(T_STEAM_DEFAULT, 1))),
                lookup_enthalpy(frame, Q(W_INIT_T, 1)),
                lookup_enthalpy(frame, OrElse(T_steam_C, Q(T_STEAM_DEFAULT, 1))))

\* h_inlet, h_f, h_g from the CSV lookups at T_ambient_C and T_steam_C; the df
\* is not None here, so every lookup returned floats
HFromCsv(init, steam, T_steam_C) ==
  [h_inlet |-> init[1],
   h_f |-> OrElse(steam[1], h_saturated_liquid_kj_kg(T_steam_C)),
   h_g |-> RAdd(OrElse(steam[1], h_saturated_liquid_kj_kg(T_steam_C)), steam[2])]

\* _h_inlet_and_saturation
h_inlet_and_saturation(frame, T_ambient_C, T_steam_C) ==
  IF STEAM_TABLES_AVAILABLE(frame)
  THEN HFromCsv(lookup_enthalpy(frame, T_ambient_C), lookup_enthalpy(frame, T_steam_C),
                T_steam_C)
  ELSE [h_inlet |-> Q(H_WATER_INLET_KJ_KG, 1),
        h_f |-> h_saturated_liquid_kj_kg(T_steam_C),
        h_g |-> h_saturated_steam_kj_kg(T_steam_C)]

\* the sensible branch of _progress_to_ht
ProgressSensible(dQ_per_kg, T_ambient_C, h_inlet) ==
  <<RAdd(h_inlet, dQ_per_kg), RAdd(T_ambient_C, RDiv(dQ_per_kg, CP_WATER_KJ_KG_K)), None>>

\* the plateau branch of _progress_to_ht, x clamped to [0, 1]
ProgressLatent(x, T_steam_C, h_f, h_g) ==
  <<RAdd(h_f, RMul(x, RSub(h_g, h_f))), T_steam_C, x>>

\* _progress_to_ht past its first test, Q_progress_kj already capped by Q_startup_kj
ProgressCapped(Q_progress_kj, Q_sensible_kj, Q_latent_kj, m_kg, T_steam_C, h_f, h_g, T_ambient_C, h_inlet) ==
  IF RLe(Q_progress_kj, Q_sensible_kj)
  THEN ProgressSensible(RDiv(Q_progress_kj, m_kg), T_ambient_C, h_inlet)
  ELSE IF RLe(Q_latent_kj, Zero) THEN <<h_f, T_steam_C, Zero>>
  ELSE ProgressLatent(
         RMax(Zero, RMin(One, RDiv(RSub(Q_progress_kj, Q_sensible_kj), Q_latent_kj))),
         T_steam_C, h_f, h_g)

\* _progress_to_ht: (h_current, T_current, x)
progress_to_ht(Q_progress_kj, Q_sensible_kj, Q_latent_kj, Q_startup_kj, m_kg, T_steam_C, h_f, h_g, T_ambient_C, h_inlet) ==
  IF RLe(Q_progress_kj, Zero) \/ RLe(m_kg, Zero) THEN <<h_inlet, T_ambient_C, None>>
  ELSE ProgressCapped(RMin(Q_progress_kj, Q_startup_kj), Q_sensible_kj, Q_latent_kj,
                      m_kg, T_steam_C, h_f, h_g, T_ambient_C, h_inlet)

ETA_PCT_DEFAULT == 85

\* the traces of the figure that depend on the boiler result: the two ends of the
\* sensible path (h_sens, T_sens), the two ends of the plateau, the progress
\* marker with its quality and the energy its label shows
ThFigure(sat, progress, Q_total_kj, T_ambient_C, T_steam_C) ==
  [sensible |->
     << <<sat.h_inlet, T_ambient_C>>,
        <<RAdd(sat.h_inlet,
               RDiv(RMul(RSub(sat.h_f, sat.h_inlet), RSub(T_steam_C, T_ambient_C)),
                    OrElse(RSub(T_steam_C, T_ambient_C), One))),
          T_steam_C>> >>,
   latent |-> << <<sat.h_f, T_steam_C>>, <<sat.h_g, T_steam_C>> >>,
   progress |-> <<progress[1], progress[2]>>,
   x_quality |-> progress[3],
   Q_total_kj |-> Q_total_kj]

\* build_th_figure from Q_total_kj on, with m, eta_pct and T_steam_C read
ThFigureOf(boiler_result, sat, m, Q_total_kj, T_ambient_C, T_steam_C) ==
  ThFigure(sat,
    progress_to_ht(Q_total_kj,
      IF RLt(Zero, m) THEN RMul(m, RSub(sat.h_f, sat.h_inlet))
      ELSE boiler_result.Q_sensible_kj,
      boiler_result.Q_latent_kj, boiler_result.Q_startup_kj, m, T_steam_C,
      sat.h_f, sat.h_g, T_ambient_C, sat.h_inlet),
    Q_total_kj, T_ambient_C, T_steam_C)

\* build_th_figure with h_inlet = None; x or 0.0 is x
build_th_figure(boiler_result, T_ambient_C, frame) ==
  ThFigureOf(boiler_result,
    h_inlet_and_saturation(frame, T_ambient_C,
                           OrElse(boiler_result.T_steam_C, Q(T_STEAM_DEFAULT, 1))),
    boiler_result.boiler_water_capacity_kg,
    RMul(RMul(boiler_result.boiler_kg_per_day, Q(LHV_METHANE_KJ_KG, 1)),
         RDiv(OrElse(boiler_result.eta_boiler_pct, Q(ETA_PCT_DEFAULT, 1)), Hundred)),
    T_ambient_C,
    OrElse(boiler_result.T_steam_C, Q(T_STEAM_DEFAULT, 1)))

(***************************************************************************)
(* Inputs of the lookups.                                                  *)
(***************************************************************************)
MaxLookupIdx == 14

\* target temperatures 0, 25, .. C
LookupTempGrid == {Q(25 * i, 1) : i \in 0..MaxLookupIdx}

\* target pressures 0.01, 0.1, 1, 5, 10 MPa
PressureGrid == {Q(1, 100), Q(1, 10), Q(1, 1), Q(5, 1), Q(10, 1)}

WaterInletGrid == {Q(0, 1), Q(25, 1), Q(50, 1)}

\* target pressures 0.05, 0.1, 0.5, 1, 3, 5, 10 MPa of the superheated lookup
SuperheatedPressureGrid ==
  {Q(5, 100), Q(1, 10), Q(5, 10), Q(1, 1), Q(3, 1), Q(5, 1), Q(10, 1)}

\* boiler results shown in the T-H diagram: efficiency, steam temperature (0 for
\* the default), average daily methane (m3/day) and boiler water (kg)
DiagramEtaGrid == {Q(50, 1), Q(85, 1)}

DiagramSteamGrid == {Q(0, 1), Q(100, 1), Q(180, 1)}

DiagramDailyGrid == {Q(0, 1), Q(1, 1), Q(47, 10), Q(5, 1), Q(125, 1)}

DiagramCapacityGrid == {Q(0, 1), Q(200, 1)}

\* SteamTableLookup(file_path): args holds the file, df the attribute
InitSteam ==
  /\ op = "init"
  /\ ret = <<>>
  /\ \E file \in CsvFiles :
       /\ args = <<file>>
       /\ df = SteamTableLookup(file)
  /\ kin = Unset
  /\ LoaderInit
  /\ SessionInit

LookupEnthalpy ==
  /\ op = "init"
  /\ \E T \in LookupTempGrid :
    /\ op' = "lookup_enthalpy"
    /\ args' = <<T>>
    /\ ret' = lookup_enthalpy(df, T)
    /\ UNCHANGED <<df, kin, loader, session_state>>

LookupEntropy ==
  /\ op = "init"
  /\ \E T \in LookupTempGrid :
    /\ op' = "lookup_entropy"
    /\ args' = <<T>>
    /\ ret' = lookup_entropy(df, T)
    /\ UNCHANGED <<df, kin, loader, session_state>>

\* two calls of h_saturated_steam_kj_kg, at T1 and at T2
HSaturatedSteam ==
  /\ op = "init"
  /\ \E T1 \in TempGrid, T2 \in TempGrid :
    /\ op' = "h_saturated_steam_kj_kg"
    /\ args' = <<T1, T2>>
    /\ ret' = <<h_saturated_steam_kj_kg(T1), h_saturated_steam_kj_kg(T2)>>
    /\ UNCHANGED <<df, kin, loader, session_state>>

\* two calls of h_saturated_liquid_kj_kg, at T1 and at T2
HSaturatedLiquid ==
  /\ op = "init"
  /\ \E T1 \in TempGrid, T2 \in TempGrid :
    /\ op' = "h_saturated_liquid_kj_kg"
    /\ args' = <<T1, T2>>
    /\ ret' = <<h_saturated_liquid_kj_kg(T1), h_saturated_liquid_kj_kg(T2)>>
    /\ UNCHANGED <<df, kin, loader, session_state>>

GetSatTemp ==
  /\ op = "init"
  /\ \E P \in PressureGrid :
    /\ op' = "get_sat_temp"
    /\ args' = <<P>>
    /\ ret' = get_sat_temp(df, P)
    /\ UNCHANGED <<df, kin, loader, session_state>>

GetSatPressure ==
  /\ op = "init"
  /\ \E T \in LookupTempGrid :
    /\ op' = "get_sat_pressure"
    /\ args' = <<T>>
    /\ ret' = get_sat_pressure(df, T)
    /\ UNCHANGED <<df, kin, loader, session_state>>

BuildHsFigure ==
  /\ op = "init"
  /\ \E T \in LookupTempGrid :
    /\ op' = "build_hs_figure"
    /\ args' = <<T>>
    /\ ret' = build_hs_figure(df, T)
    /\ UNCHANGED <<df, kin, loader, session_state>>

HInletAndSaturation ==
  /\ op = "init"
  /\ \E Ta \in WaterInletGrid, Ts \in LookupTempGrid :
    /\ op' = "_h_inlet_and_saturation"
    /\ args' = <<Ta, Ts>>
    /\ ret' = h_inlet_and_saturation(df, Ta, Ts)
    /\ UNCHANGED <<df, kin, loader, session_state>>

\* SuperheatedLookup(file).lookup(P, T)
SuperheatedLookupLookup ==
  /\ op = "init"
  /\ \E file \in SuperheatedFiles, P \in SuperheatedPressureGrid, T \in LookupTempGrid :
    /\ op' = "SuperheatedLookup.lookup"
    /\ args' = <<file, P, T>>
    /\ ret' = lookup(SuperheatedLookup(file), P, T)
    /\ UNCHANGED <<df, kin, loader, session_state>>

\* build_th_figure(boiler_balance(...), T_ambient_C)
BuildThFigure ==
  /\ op = "init"
  /\ \E eta \in DiagramEtaGrid, T \in DiagramSteamGrid, avg \in DiagramDailyGrid,
        cap \in DiagramCapacityGrid, Ta \in WaterInletGrid :
    \E boiler_result \in {boiler_balance(eta, T, avg, cap, CH4_DENSITY_KG_M3)} :
      /\ op' = "build_th_figure"
      /\ args' = <<boiler_result, Ta>>
      /\ ret' = build_th_figure(boiler_result, Ta, df)
      /\ UNCHANGED <<df, kin, loader, session_state>>

NextSteam ==
  \/ SuperheatedLookupLookup
  \/ BuildThFigure
  \/ LookupEnthalpy
  \/ LookupEntropy
  \/ HSaturatedSteam
  \/ HSaturatedLiquid
  \/ GetSatTemp
  \/ GetSatPressure
  \/ BuildHsFigure
  \/ HInletAndSaturation

SpecSteam == InitSteam /\ [][NextSteam]_vars

(***************************************************************************)
(* The lazy singletons of steam_tables.py.  get_sat_lookup() and           *)
(* get_sup_lookup() take no lock: a caller tests the module global, runs   *)
(* the constructor (which reads the CSV file) when the test found None,    *)
(* stores the new instance in the global, and returns what the global      *)
(* holds.  Other callers may run between any two of these steps.  An       *)
(* instance is identified by the rank of its construction.                 *)
(***************************************************************************)
Tables == {"sat", "sup"}

\* the module global of a table: _sat_lookup or _sup_lookup
Global(table) == IF table = "sat" THEN sat_lookup ELSE sup_lookup

InitLoader ==
  /\ op = "import"
  /\ args = <<>>
  /\ ret = <<>>
  /\ df = NoDataFrame
  /\ kin = Unset
  /\ LoaderInit
  /\ SessionInit

\* if _sat_lookup is None: (resp. _sup_lookup), the first step of a call
TestIsNone ==
  \E t \in Callers, table \in Tables :
    /\ pc[t] = <<"idle">>
    /\ pc' = [pc EXCEPT ![t] =
                IF Global(table) = Unset THEN <<"construct", table>>
                ELSE <<"return", table>>]
    /\ UNCHANGED <<op, args, ret, df, kin, session_state, sat_lookup, sup_lookup, made, got, loads>>

\* SteamTableLookup() (resp. SuperheatedLookup()): the constructor runs
Construct ==
  \E t \in Callers, table \in Tables :
    /\ pc[t] = <<"construct", table>>
    /\ loads' = [loads EXCEPT ![table] = @ + 1]
    /\ made' = [made EXCEPT ![t] = Some(loads[table] + 1)]
    /\ pc' = [pc EXCEPT ![t] = <<"store", table>>]
    /\ UNCHANGED <<op, args, ret, df, kin, session_state, sat_lookup, sup_lookup, got>>

\* _sat_lookup = ... (resp. _sup_lookup = ...): the global takes the new instance
StoreGlobal ==
  \E t \in Callers, table \in Tables :
    /\ pc[t] = <<"store", table>>
    /\ sat_lookup' = IF table = "sat" THEN made[t] ELSE sat_lookup
    /\ sup_lookup' = IF table = "sup" THEN made[t] ELSE sup_lookup
    /\ made' = [made EXCEPT ![t] = Unset]
    /\ pc' = [pc EXCEPT ![t] = <<"return", table>>]
    /\ UNCHANGED <<op, args, ret, df, kin, session_state, got, loads>>

\* return _sat_lookup (resp. _sup_lookup): the caller receives what the global holds
ReturnGlobal ==
  \E t \in Callers, table \in Tables :
    /\ pc[t] = <<"return", table>>
    /\ got' = [got EXCEPT ![t][table] = Global(table)]
    /\ pc' = [pc EXCEPT ![t] = <<"idle">>]
    /\ UNCHANGED <<op, args, ret, df, kin, session_state, sat_lookup, sup_lookup, made, loads>>

NextLoader == TestIsNone \/ Construct \/ StoreGlobal \/ ReturnGlobal

SpecLoader == InitLoader /\ [][NextLoader]_vars

(***************************************************************************)
(* app.py: the step wizard.  st.session_state holds current_step, report,  *)
(* boiler_result, power_cycle_result and menu_open.  One action is one run *)
(* of main() in which one widget fired; a widget fires only in a run that   *)
(* renders it.                                                             *)
(***************************************************************************)
\* two of the five biomass types
BIOMASS_TYPES ==
  [cattle |-> [label |-> "Cattle / slurry (dung)", moisture_pct |-> Q(94, 1),
               added_water_ratio |-> Q(0, 1)],
   food_waste |-> [label |-> "Food waste", moisture_pct |-> Q(77, 1),
                   added_water_ratio |-> Q(1, 1)]]

to_kg_s(value, unit) ==
  IF unit = "kg/s" THEN value
  ELSE IF unit = "kg/hr" THEN RDiv(value, Q(3600, 1))
  ELSE IF unit = "kg/day" THEN RDiv(value, Q(SECONDS_PER_DAY, 1))
  ELSE value

\* the default pre-exponential factor A = 1e10 of BiogasKinetics
A_DEFAULT == RMul(Q(100000, 1), Q(100000, 1))

\* the engine the Analyze submit constructs
AnalyzeEngine(biomass_type_key, flow_unit, mass_flow_user, temp) ==
  BiogasKinetics(to_kg_s(mass_flow_user, flow_unit),
                 BIOMASS_TYPES[biomass_type_key].moisture_pct, temp,
                 BIOMASS_TYPES[biomass_type_key].added_water_ratio,
                 A_DEFAULT, Q(Ea_DEFAULT, 1))

\* report = engine.to_dict() and the three keys the submit adds
AnalyzeReport(biomass_type_key, dict) ==
  [biomass_type |-> BIOMASS_TYPES[biomass_type_key].label,
   moisture_pct_used |-> BIOMASS_TYPES[biomass_type_key].moisture_pct,
   added_water_ratio |-> BIOMASS_TYPES[biomass_type_key].added_water_ratio] @@ dict

\* the four session_state assignments of the Analyze submit, boiler_result kept
analyze_keeps_boiler_result(session, report) ==
  [session EXCEPT !.report = Some(report), !.power_cycle_result = Unset,
                  !.current_step = 1]

\* the four session_state assignments of the Analyze submit
analyze_submit(session, report) ==
  [session EXCEPT !.report = Some(report), !.boiler_result = Unset,
                  !.power_cycle_result = Unset, !.current_step = 1]

\* can_go of render_left_nav, step 3 opened by the report
can_go_step3_by_report(i, report, boiler, power) ==
  \/ i = 0
  \/ i = 1 /\ report # Unset
  \/ i = 2 /\ report # Unset
  \/ i = 3 /\ report # Unset
  \/ i = 4 /\ power # Unset
  \/ i = 5 /\ power # Unset

\* can_go of render_left_nav
can_go(i, report, boiler, power) ==
  \/ i = 0
  \/ i = 1 /\ report # Unset
  \/ i = 2 /\ report # Unset
  \/ i = 3 /\ boiler # Unset
  \/ i = 4 /\ power # Unset
  \/ i = 5 /\ power # Unset

\* res of the Update Boiler submit
update_boiler(report, eta_boiler, T_steam, boiler_capacity_kg) ==
  boiler_balance(eta_boiler, T_steam, OrElse(report.avg_daily_m3, Zero),
                 boiler_capacity_kg, CH4_DENSITY_KG_M3)

\* res of the Calculate power cycle submit
calculate_power_cycle(report, eta_comp, eta_turb, eta_gen, air_mass_flow, pressure_ratio, t_amb_air) ==
  power_cycle_logic(OrElse(report.V_total_m3, RMul(report.avg_daily_m3, Q(30, 1))),
                    OrElse(report.volatile_yield_kg, RMul(report.reactor_mass_kg, Q(5, 100))),
                    air_mass_flow, pressure_ratio, RDiv(eta_comp, Hundred),
                    RDiv(eta_turb, Hundred), RDiv(eta_gen, Hundred), t_amb_air)

(***************************************************************************)
(* Inputs of the forms.                                                    *)
(***************************************************************************)
\* biomass type, mass flow unit, feedstock mass, surrounding temperature (C):
\* the form's defaults 60 kg/day and 5 kg/s at 25 C, and a warmer digester
AnalyzeFormGrid ==
  {<<"cattle", "kg/day", Q(60, 1), Q(25, 1)>>,
   <<"food_waste", "kg/s", Q(5, 1), Q(25, 1)>>,
   <<"cattle", "kg/s", Q(5, 1), Q(35, 1)>>}

\* boiler efficiency (%), steam temperature (C), water capacity (kg)
BoilerFormGrid == {<<Q(85, 1), Q(180, 1), Q(200, 1)>>, <<Q(50, 1), Q(180, 1), Q(200, 1)>>}

\* compressor, turbine, generator efficiency (%), air flow, pressure ratio, ambient
PowerFormGrid ==
  {<<Q(75, 1), Q(85, 1), Q(94, 1), Q(1, 2), Q(10, 1), Q(25, 1)>>,
   <<Q(75, 1), Q(85, 1), Q(90, 1), Q(1, 2), Q(10, 1), Q(25, 1)>>}

(***************************************************************************)
(* The widgets.                                                            *)
(***************************************************************************)
InitWizard ==
  /\ op = "init_session_state"
  /\ args = <<>>
  /\ ret = <<>>
  /\ df = NoDataFrame
  /\ kin = Unset
  /\ LoaderInit
  /\ SessionInit

\* a run of main() in which the widget name fired, leaving the session as state
Fired(name, arguments, state) ==
  /\ op' = name
  /\ args' = arguments
  /\ ret' = <<>>
  /\ session_state' = state
  /\ UNCHANGED <<df, kin, loader>>

\* "Close menu" of render_left_nav
CloseMenu ==
  /\ session_state.menu_open
  /\ Fired("nav_toggle", <<>>, [session_state EXCEPT !.menu_open = FALSE])

\* "Menu" of main
OpenMenu ==
  /\ ~session_state.menu_open
  /\ Fired("hamburger_open", <<>>, [session_state EXCEPT !.menu_open = TRUE])

\* a step button of render_left_nav
NavStep ==
  \E i \in 0..5 :
    /\ session_state.menu_open
    /\ can_go(i, session_state.report, session_state.boiler_result,
              session_state.power_cycle_result)
    /\ session_state.current_step # i
    /\ Fired("nav_step", <<i>>, [session_state EXCEPT !.current_step = i])

\* "Back to previous step" of render_step_indicator
Back ==
  /\ session_state.current_step > 0
  /\ Fired("back_btn", <<>>, [session_state EXCEPT !.current_step = @ - 1])

\* the Analyze submit of render_step0_initial_params
Analyze ==
  \E f \in AnalyzeFormGrid :
    /\ session_state.current_step = 0
    /\ \E r \in {to_dict(AnalyzeEngine(f[1], f[2], f[3], f[4]))} :
         Fired("Analyze", f,
               IF Raised(r.ret) THEN session_state
               ELSE analyze_submit(session_state, AnalyzeReport(f[1], r.ret.value)))

\* "Next: Boiler details" of render_step1_results
NextBoilerDetails ==
  /\ session_state.current_step = 1
  /\ Fired("step1_next", <<>>, [session_state EXCEPT !.current_step = 2])

\* the Update Boiler submit of render_step2_boiler
UpdateBoiler ==
  \E f \in BoilerFormGrid :
    /\ session_state.current_step = 2
    /\ Fired("Update Boiler", f,
             [session_state EXCEPT !.boiler_result =
                Some(update_boiler(session_state.report[1], f[1], f[2], f[3]))])

\* "Next: Combustion & power cycle" of render_step2_boiler
NextPowerCycle ==
  /\ session_state.current_step = 2
  /\ session_state.boiler_result # Unset
  /\ Fired("step2_next", <<>>, [session_state EXCEPT !.current_step = 3])

\* the Calculate power cycle submit of render_step3_power_cycle
CalculatePowerCycle ==
  \E f \in PowerFormGrid :
    /\ session_state.current_step = 3
    /\ Fired("Calculate power cycle", f,
             [session_state EXCEPT !.power_cycle_result =
                Some(calculate_power_cycle(session_state.report[1], f[1], f[2], f[3],
                                           f[4], f[5], f[6]))])

\* "Next: View thermodynamic diagrams" of render_step3_power_cycle
NextDiagrams ==
  /\ session_state.current_step = 3
  /\ session_state.power_cycle_result # Unset
  /\ Fired("step3_next", <<>>, [session_state EXCEPT !.current_step = 4])

\* the three buttons of render_step5_schematic, to steps 4, 3 and 5
SchematicButton ==
  \E target \in {4, 3, 5} :
    /\ session_state.current_step = 5
    /\ Fired("step5_button", <<target>>, [session_state EXCEPT !.current_step = target])

NextWizard ==
  \/ CloseMenu
  \/ OpenMenu
  \/ NavStep
  \/ Back
  \/ Analyze
  \/ NextBoilerDetails
  \/ UpdateBoiler
  \/ NextPowerCycle
  \/ CalculatePowerCycle
  \/ NextDiagrams
  \/ SchematicButton

SpecWizard == InitWizard /\ [][NextWizard]_vars

(***************************************************************************)
(* boiler_engine.py in binary64.  Python floats are IEEE 754 doubles: each *)
(* +, -, * and / returns the double nearest the exact result, ties to the  *)
(* even mantissa, and a decimal literal is the double nearest to it.  A    *)
(* double is held as the rational it equals; the values here are far from  *)
(* overflow and from the subnormal range.                                  *)
(***************************************************************************)
\* a * 2^k, thirteen bits at a time
RECURSIVE NShl(_, _)
NShl(a, k) ==
  IF a = <<>> THEN <<>>
  ELSE IF k >= 13 THEN NShl(NMulLimb(a, 8192, 0), k - 13)
  ELSE NMulLimb(a, 2^k, 0)

NPow2(k) == NShl(<<1>>, k)

\* the limb i of a, 0 outside a
NLimb(a, i) == IF i >= 1 /\ i <= Len(a) THEN a[i] ELSE 0

\* the number of decimal digits by which the two leading limbs of d exceed five
NLeadShift(d) ==
  IF Len(d) < 2 THEN 0
  ELSE IF d[Len(d)] < 10 THEN 0
  ELSE IF d[Len(d)] < 100 THEN 1
  ELSE IF d[Len(d)] < 1000 THEN 2
  ELSE 3

\* a \div (Base^(j - 1) * 10^s) for a below Base^(j + 2), from the limbs j .. j + 2
NLead(a, j, s) ==
  NLimb(a, j + 2) * 10^(8 - s) + (NLimb(a, j + 1) * Base + NLimb(a, j)) \div 10^s

\* an estimate of r \div d for 0 <= r < Base * d, from the leading five or so
\* decimal digits of d: at most one away from it
NDigitGuess(r, d) ==
  NLead(r, IF Len(d) < 2 THEN 1 ELSE Len(d) - 1, NLeadShift(d))
    \div NLead(d, IF Len(d) < 2 THEN 1 ELSE Len(d) - 1, NLeadShift(d))

\* d * q for a number q of 0 .. Base
NTimes(d, q) == IF q = 0 THEN <<>> ELSE NMulLimb(d, q, 0)

NDigitFits(r, d, q) ==
  /\ q >= 0
  /\ NCmp(NTimes(d, q), r) <= 0
  /\ NCmp(r, NTimes(d, q + 1)) < 0

\* <<r \div d, r % d>> for 0 <= r < Base * d, the quotient one limb
NDigitAt(r, d, q) == <<q, NSub(r, NTimes(d, q))>>

NDigitNear(r, d, g) ==
  NDigitAt(r, d, CHOOSE q \in {g - 1, g, g + 1} : NDigitFits(r, d, q))

NDigit(r, d) == NDigitNear(r, d, NDigitGuess(r, d))

\* the limb x brought down below the remainder r
NBringDown(r, x) == IF r = <<>> /\ x = 0 THEN <<>> ELSE <<x>> \o r

\* long division of n by d: the limbs i .. 1 of n are still to bring down, q holds
\* the quotient limbs found and r the remainder so far
RECURSIVE NLongDiv(_, _, _, _, _)
NLongDiv(n, d, i, q, r) ==
  IF i = 0 THEN <<NNorm(q), r>>
  ELSE CHOOSE x \in {NLongDiv(n, d, i - 1, <<s[1]>> \o q, s[2]) :
                       s \in {NDigit(NBringDown(r, n[i]), d)}} : TRUE

\* <<n \div d, n % d>> for d > 0
NDivMod(n, d) ==
  IF Len(n) < Len(d) THEN <<<<>>, n>>
  ELSE NLongDiv(n, d, Len(n) - Len(d) + 1, <<>>,
                NNorm(SubSeq(n, Len(n) - Len(d) + 2, Len(n))))

\* the position of the leading bit of a limb t >= 1
BitsOfLimb(t) == CHOOSE b \in 0 .. 13 : 2^b <= t /\ t < 2^(b + 1)

\* a lower estimate of log2(a) for a > 0, less than two below it: a limb is
\* 13.2877 bits
NBits(a) == ((Len(a) - 1) * 132877) \div Base + BitsOfLimb(a[Len(a)])

\* <<n', d', up, down>> with n'/d' = (n/d) * up / down in [2^52, 2^53), the range
\* of a mantissa of 53 bits, up and down powers of two, in steps of 2
RECURSIVE ScaleToMantissa(_, _, _, _)
ScaleToMantissa(n, d, up, down) ==
  IF NCmp(n, NShl(d, 52)) < 0
  THEN ScaleToMantissa(NMulLimb(n, 2, 0), d, NMulLimb(up, 2, 0), down)
  ELSE IF NCmp(n, NShl(d, 53)) >= 0
  THEN ScaleToMantissa(n, NMulLimb(d, 2, 0), up, NMulLimb(down, 2, 0))
  ELSE <<n, d, up, down>>

\* the scaling started e bits up (down for e < 0), e from the estimates of the
\* two logarithms
ScaleFrom(n, d, e) ==
  IF e >= 0 THEN ScaleToMantissa(NShl(n, e), d, NPow2(e), <<1>>)
  ELSE ScaleToMantissa(n, NShl(d, -e), <<1>>, NPow2(-e))

ScaleOf(n, d) ==
  CHOOSE s \in {ScaleFrom(n, d, e) : e \in {52 - (NBits(n) - NBits(d))}} : TRUE

\* the integer nearest q + r/d, the even one of two equally near
RoundHalfEven(q, r, d) ==
  IF NCmp(NAdd(r, r), d) > 0 \/ (NCmp(NAdd(r, r), d) = 0 /\ NModSmall(q, 2) = 1)
  THEN NAdd(q, <<1>>)
  ELSE q

\* the double of sign neg and mantissa round(qr) at the scale s
Rounded(neg, qr, s) == Mk(neg, NMul(RoundHalfEven(qr[1], qr[2], s[2]), s[4]), s[3])

\* the division of the scaled value, then its rounding
RoundScaled(neg, s) ==
  CHOOSE r \in {Rounded(neg, qr, s) : qr \in {NDivMod(s[1], s[2])}} : TRUE

\* the double nearest the rational x: the scaling first, then the division
fl(x) ==
  IF IsInf(x) \/ IsZero(x) THEN x
  ELSE CHOOSE r \in {RoundScaled(x.neg, s) : s \in {ScaleOf(x.n, x.d)}} : TRUE

\* the float operators of Python: the operands are evaluated, then the exact
\* result is rounded
FAdd(a, b) == CHOOSE r \in {fl(RAdd(x, y)) : x \in {a}, y \in {b}} : TRUE
FSub(a, b) == CHOOSE r \in {fl(RSub(x, y)) : x \in {a}, y \in {b}} : TRUE
FMul(a, b) == CHOOSE r \in {fl(RMul(x, y)) : x \in {a}, y \in {b}} : TRUE
FDiv(a, b) == CHOOSE r \in {fl(RDiv(x, y)) : x \in {a}, y \in {b}} : TRUE

\* the float literals 4.18 and 0.657
CP_WATER_BINARY64 == fl(CP_WATER_KJ_KG_K)

CH4_DENSITY_BINARY64 == fl(CH4_DENSITY_KG_M3)

\* np.interp(x, xp, fp) inside the table: slope * (x - xp[j]) + fp[j]
InterpAt_binary64(x, xp, fp, j) ==
  IF j = Len(xp) \/ REq(x, xp[j]) THEN fp[j]
  ELSE FAdd(FMul(FDiv(FSub(fp[j + 1], fp[j]), FSub(xp[j + 1], xp[j])), FSub(x, xp[j])),
            fp[j])

\* h_saturated_steam_kj_kg (table STEAM_H_TABLE) and h_saturated_liquid_kj_kg
\* (table STEAM_H_F_TABLE)
h_saturated_binary64(T_C, temps, enthalpies) ==
  IF RLe(T_C, temps[1]) THEN enthalpies[1]
  ELSE IF RLe(temps[Len(temps)], T_C) THEN enthalpies[Len(enthalpies)]
  ELSE InterpAt_binary64(T_C, temps, enthalpies, Bracket(T_C, temps, 1))

\* Q_sensible + Q_latent of boiler_startup_energy_kj
Q_total_binary64(m, T_steam_C, T_ambient_C, h_steam, h_f) ==
  FAdd(FMul(FMul(m, CP_WATER_BINARY64), FSub(T_steam_C, T_ambient_C)),
       FMul(m, FSub(h_steam, h_f)))

boiler_startup_energy_binary64(boiler_water_capacity_kg, T_steam_C, T_ambient_C) ==
  Q_total_binary64(boiler_water_capacity_kg, T_steam_C, T_ambient_C,
                   h_saturated_binary64(T_steam_C, Column(STEAM_H_TABLE, 1),
                                        Column(STEAM_H_TABLE, 2)),
                   h_saturated_binary64(T_steam_C, Column(STEAM_H_F_TABLE, 1),
                                        Column(STEAM_H_F_TABLE, 2)))

methane_mass_needed_binary64(Q_startup_kj, eta_boiler_pct, lhv_kj_kg) ==
  IF RLe(eta_boiler_pct, Zero) THEN Zero
  ELSE FDiv(Q_startup_kj, FMul(lhv_kj_kg, FDiv(eta_boiler_pct, Hundred)))

\* (Q_startup_kj / power_kw) / 60.0
MinutesAtPower(Q_startup_kj, power_kw) ==
  IF RLe(power_kw, Zero) THEN Zero ELSE FDiv(FDiv(Q_startup_kj, power_kw), Q(60, 1))

time_to_steam_binary64(Q_startup_kj, methane_kg_per_day, eta_boiler_pct, lhv_kj_kg) ==
  IF RLe(methane_kg_per_day, Zero) \/ RLe(eta_boiler_pct, Zero) THEN Zero
  ELSE MinutesAtPower(Q_startup_kj,
                      FMul(FMul(FDiv(methane_kg_per_day, Q(SECONDS_PER_DAY, 1)), lhv_kj_kg),
                           FDiv(eta_boiler_pct, Hundred)))

\* the boiler and collector shares of partition_methane_per_day, boiler_kg given
SharesOf(methane_per_day_kg, boiler_kg) ==
  [boiler_kg_per_day |-> boiler_kg,
   collector_kg_per_day |-> FSub(methane_per_day_kg, boiler_kg)]

\* partition_methane_per_day handing the boiler the whole production
partition_methane_binary64_uncapped(methane_per_day_kg, methane_needed_kg) ==
  IF RLe(methane_per_day_kg, Zero)
  THEN [boiler_kg_per_day |-> Zero, collector_kg_per_day |-> Zero]
  ELSE SharesOf(methane_per_day_kg, methane_per_day_kg)

partition_methane_binary64(methane_per_day_kg, methane_needed_kg) ==
  IF RLe(methane_per_day_kg, Zero)
  THEN [boiler_kg_per_day |-> Zero, collector_kg_per_day |-> Zero]
  ELSE SharesOf(methane_per_day_kg, RMin(methane_needed_kg, methane_per_day_kg))

\* the entries of boiler_balance's result that follow from Q_startup and the production
BalanceOf(eta_boiler_pct, Q_startup, methane_needed_kg, methane_per_day_kg) ==
  [Q_startup_kj |-> Q_startup,
   methane_needed_kg |-> methane_needed_kg,
   methane_per_day_kg |-> methane_per_day_kg,
   startup_time_minutes |->
     time_to_steam_binary64(Q_startup, methane_per_day_kg, eta_boiler_pct,
                            Q(LHV_METHANE_KJ_KG, 1)),
   eta_boiler_pct |-> eta_boiler_pct]
    @@ partition_methane_binary64(methane_per_day_kg, methane_needed_kg)

\* methane_needed_kg is assigned, then the time and the shares
BalanceFrom(eta_boiler_pct, Q_startup, methane_per_day_kg) ==
  CHOOSE r \in {BalanceOf(eta_boiler_pct, Q_startup, methane_needed_kg, methane_per_day_kg) :
                  methane_needed_kg \in
                    {methane_mass_needed_binary64(Q_startup, eta_boiler_pct,
                                                  Q(LHV_METHANE_KJ_KG, 1))}} : TRUE

\* boiler_balance: the energy, methane, time and share entries of its result
boiler_balance_binary64(eta_boiler_pct, T_steam_C, avg_daily_methane_m3, boiler_water_capacity_kg, ch4_density_kg_m3) ==
  CHOOSE r \in {BalanceFrom(eta_boiler_pct, Q_startup, methane_per_day_kg) :
                  Q_startup \in
                    {boiler_startup_energy_binary64(boiler_water_capacity_kg, T_steam_C,
                                                    T_AMBIENT_DEFAULT)},
                  methane_per_day_kg \in {FMul(avg_daily_methane_m3, ch4_density_kg_m3)}} :
    TRUE

\* Q_total_kj of build_th_figure: boiler_kg_per_day * LHV_METHANE_KJ_KG * (eta_pct / 100.0)
Q_total_kj_binary64(boiler_kg_per_day, eta_pct) ==
  FMul(FMul(boiler_kg_per_day, Q(LHV_METHANE_KJ_KG, 1)), FDiv(eta_pct, Hundred))

(***************************************************************************)
(* Inputs of boiler_balance in binary64: every value is a double.          *)
(***************************************************************************)
\* the double limbs / 2^k
Dyadic(limbs, k) == Mk(FALSE, limbs, NPow2(k))

\* boiler efficiencies (%)
Binary64EtaGrid == {Q(eta, 1) : eta \in {1, 3, 13, 16, 50, 85, 98, 99}}

\* steam temperatures (C) of the table
Binary64SteamGrid == {Q(180, 1), Q(200, 1)}

\* daily methane (m3): none, 4.7, 125, 1000, and the two doubles
\* 1096973005916763 / 2^43 = 124.71139210865238 and
\* 2376774846152987 / 2^42 = 540.4160324708271, whose daily mass is within one
\* unit in the last place of the mass a 200 kg boiler at 180 C needs at 13 % and 3 %
Binary64DailyGrid ==
  {Zero, fl(Q(47, 10)), Q(125, 1), Q(1000, 1),
   Dyadic(<<6763, 591, 9730, 1096>>, 43), Dyadic(<<2987, 4615, 7748, 2376>>, 42)}

\* boiler water (kg)
Binary64CapacityGrid == {Q(200, 1), Q(1000, 1)}

BoilerBalanceBinary64 ==
  /\ op = "init"
  /\ \E eta \in Binary64EtaGrid, T \in Binary64SteamGrid, avg \in Binary64DailyGrid, cap \in Binary64CapacityGrid :
    /\ op' = "boiler_balance in binary64"
    /\ args' = <<eta, T, avg, cap>>
    /\ ret' = boiler_balance_binary64(eta, T, avg, cap, CH4_DENSITY_BINARY64)
    /\ UNCHANGED <<df, kin, loader, session_state>>

NextBinary64 == BoilerBalanceBinary64

SpecBinary64 == Init /\ [][NextBinary64]_vars

(***************************************************************************)
(* Claims about the kinetics engine, checked under SpecKinetics.           *)
(***************************************************************************)
ValidFeedstock(m, p) == RLe(Zero, m) /\ RLe(Zero, p) /\ RLe(p, Hundred)

\* C1: for every valid feedstock input (mass flow >= 0, moisture in [0,100]) the
\* moisture-rich and moisture-lean streams returned by partition_feedstock sum to
\* the total mass flow.
C1_PartitionSumsToTotal ==
  (op = "partition_feedstock" /\ ValidFeedstock(args[1], args[2]))
    => REq(RAdd(ret[1], ret[2]), args[1])

\* a call with a positive flow split into two non-empty streams
C1_Witness ==
  /\ op = "partition_feedstock"
  /\ RLt(Zero, ret[1])
  /\ RLt(Zero, ret[2])
  /\ REq(RAdd(ret[1], ret[2]), args[1])

\* C2: in both branches of water_dilution_mass_balance the returned
\* high_solids_warning is true iff the returned final_total_solids_pct is strictly
\* greater than 12.0.
C2_WarningIffAboveTwelve ==
  op = "water_dilution_mass_balance" => (ret[4] <=> RLt(Q(12, 1), ret[3]))

\* a diluted slurry (main branch) whose final solids are exactly 12 %: no warning
C2_Witness ==
  /\ op = "water_dilution_mass_balance"
  /\ RLt(Zero, ret[2])
  /\ RLt(Zero, args[3])
  /\ REq(ret[3], Q(12, 1))
  /\ ret[4] = FALSE

\* C3: days_to_maturity_from_k returns 1/k when k > 0 and +infinity when k <= 0.
C3_DaysToMaturity ==
  op = "days_to_maturity_from_k" =>
    IF RLt(Zero, args[1])
    THEN ~IsInf(ret) /\ REq(RMul(ret, args[1]), One)
    ELSE IsInf(ret)

\* a zero rate constant answered with +infinity
C3_Witness ==
  /\ op = "days_to_maturity_from_k"
  /\ IsZero(args[1])
  /\ IsInf(ret)

\* C4: for all inputs of methane_production, infinite and non-positive retention
\* included, peak_daily_m3 is exactly 1.5 times avg_daily_m3.
C4_PeakIsOneAndAHalfAvg ==
  op = "methane_production" => REq(RMul(Q(2, 1), ret[2]), RMul(Q(3, 1), ret[1]))

\* a producing stream with infinite retention: the volume is 0, the peak is not
C4_Witness ==
  /\ op = "methane_production"
  /\ IsInf(args[3])
  /\ RLt(Zero, ret[1])
  /\ IsZero(ret[3])
  /\ REq(RMul(Q(2, 1), ret[2]), RMul(Q(3, 1), ret[1]))

\* C21: when the total slurry flow mass_flow + mass_flow * added_water_ratio is
\* <= 0, water_dilution_mass_balance returns added water 0 and, as
\* final_total_solids_pct, the dry-matter percentage it was given; otherwise
\* final_total_solids_pct = (mass_flow * dry_matter_pct / 100) / total_slurry * 100.
C21_EmptySlurryKeepsDryMatter ==
  op = "water_dilution_mass_balance" =>
    IF RLe(RAdd(args[1], RMul(args[1], args[3])), Zero)
    THEN IsZero(ret[1]) /\ REq(ret[3], args[2])
    ELSE REq(RMul(ret[3], RMul(RAdd(args[1], RMul(args[1], args[3])), Hundred)),
             RMul(RMul(args[1], args[2]), Hundred))

\* a positive flow with added_water_ratio = -1: the slurry is empty and the 50 %
\* dry matter comes back unchanged
C21_Witness ==
  /\ op = "water_dilution_mass_balance"
  /\ RLt(Zero, args[1])
  /\ REq(args[3], Q(0 - 1, 1))
  /\ REq(args[2], Q(50, 1))
  /\ IsZero(ret[1])
  /\ REq(ret[3], Q(50, 1))

\* C22: reactor_mass_kg returns total_slurry_kg_s * days_to_maturity * 86400 when
\* days_to_maturity is positive and finite and 0 when it is non-positive or
\* infinite; V_total_m3 and methane_mass_kg are 0 in that degenerate case too.
C22_DegenerateRetentionGivesZero ==
  /\ op = "reactor_mass_kg" =>
       IF ~IsInf(args[2]) /\ RLt(Zero, args[2])
       THEN REq(ret, RMul(RMul(args[1], args[2]), Q(86400, 1)))
       ELSE IsZero(ret)
  /\ (op = "methane_production" /\ (IsInf(args[3]) \/ RLe(args[3], Zero))) =>
       IsZero(ret[3]) /\ IsZero(ret[4])

\* a positive slurry flow held for a negative retention: the mass is 0
C22_Witness ==
  /\ op = "reactor_mass_kg"
  /\ RLt(Zero, args[1])
  /\ ~IsInf(args[2])
  /\ RLt(args[2], Zero)
  /\ IsZero(ret)

\* the results that the AD/HTC split and the kinetics determine
SplitResults ==
  {"moisture_rich_biomass_kg_s", "moisture_lean_biomass_kg_s", "k_per_day",
   "days_to_maturity", "avg_daily_m3", "peak_daily_m3", "V_total_m3",
   "methane_mass_kg", "ignition_power_kw"}

\* C20: two kinetics evaluations that differ only in added_water_ratio return
\* identical moisture_rich_kg_s, moisture_lean_kg_s, k_per_day, days_to_maturity,
\* avg_daily_m3, peak_daily_m3, V_total_m3, methane_mass_kg and ignition_power_kw.
C20_SplitIgnoresDilution ==
  (op = "to_dict" /\ ~Raised(ret[1]) /\ ~Raised(ret[2])) =>
    \A name \in SplitResults : ret[1].value[name] = ret[2].value[name]

\* two evaluations of a producing feedstock, undiluted and diluted: the slurry
\* differs, the moisture-rich stream does not
C20_Witness ==
  /\ op = "to_dict"
  /\ ~Raised(ret[1])
  /\ ~Raised(ret[2])
  /\ args[1].added_water_ratio # args[2].added_water_ratio
  /\ RLt(ret[1].value.total_slurry_kg_s, ret[2].value.total_slurry_kg_s)
  /\ RLt(Zero, ret[1].value.moisture_rich_biomass_kg_s)
  /\ ret[1].value.moisture_rich_biomass_kg_s = ret[2].value.moisture_rich_biomass_kg_s

(***************************************************************************)
(* Claims about one BiogasKinetics instance, checked under SpecInstance.   *)
(***************************************************************************)
\* C16: run() and to_dict() complete without raising for every mass flow,
\* moisture_pct in [0, 100], added_water_ratio >= 0, A, Ea and temperature_C, the
\* temperature whose Kelvin value is 0 included.
C16_RunIsTotal ==
  op \in {"run", "to_dict"} => ~Raised(ret)

\* what a call reports is what the attributes hold
ReportsAttributes ==
  /\ (op = "property" /\ ~Raised(ret)) => ret.value = kin[PropertyField[args[1]]][1]
  /\ (op = "to_dict" /\ ~Raised(ret)) =>
       \A name \in DOMAIN PropertyField : ret.value[name] = kin[PropertyField[name]][1]

\* C19: over any sequence of property reads, run() calls and to_dict() calls on one
\* instance, a derived attribute once assigned keeps its value, and a property read
\* and to_dict() report the value the attribute holds.
C19_DerivedFieldsNeverMutated ==
  [][/\ \A f \in DerivedFields : kin[f] # Unset => kin'[f] = kin[f]
     /\ ReportsAttributes']_vars

\* a diluted producing feedstock evaluated and reported by to_dict()
C19_Witness ==
  /\ op = "to_dict"
  /\ ~Raised(ret)
  /\ RLt(Zero, kin.added_water_ratio)
  /\ RLt(kin.total_mass_flow_kg_s, kin._total_slurry_kg_s[1])
  /\ ret.value.total_slurry_kg_s = kin._total_slurry_kg_s[1]

(***************************************************************************)
(* Claims about the boiler engine, checked under SpecBoiler.               *)
(***************************************************************************)
\* a state holding a daily split: a direct call, or a boiler_balance result
HasSplit == op \in {"partition_methane_per_day", "boiler_balance"}

SplitPerDay == IF op = "boiler_balance" THEN ret.methane_per_day_kg ELSE args[1]

SplitNeeded == IF op = "boiler_balance" THEN ret.methane_needed_kg ELSE args[2]

InPct(x) == RLe(Zero, x) /\ RLe(x, Hundred)

\* C7: whenever methane_per_day_kg > 0 the percentages of partition_methane_per_day
\* sum to 100, and both lie in [0, 100] when methane_needed_kg >= 0.
C7_PercentagesSumTo100 ==
  (HasSplit /\ RLt(Zero, SplitPerDay)) =>
    /\ REq(RAdd(ret.boiler_pct, ret.collector_pct), Hundred)
    /\ RLe(Zero, SplitNeeded) => (InPct(ret.boiler_pct) /\ InPct(ret.collector_pct))

\* a direct call with demand above production: 100 % boiler, 0 % collector
C7_Witness ==
  /\ op = "partition_methane_per_day"
  /\ RLt(Zero, args[1])
  /\ RLt(args[1], args[2])
  /\ REq(ret.boiler_pct, Hundred)
  /\ IsZero(ret.collector_pct)

\* C11: Scenario B: boiler_balance with eta_boiler_pct = 85, T_steam_C = 180 and
\* boiler_water_capacity_kg = 200 (ambient 25 C) returns Q_sensible_kj = 129580,
\* Q_latent_kj = 403000, Q_startup_kj = 532580 and
\* methane_needed_kg = 532580 / (50000 * 0.85).
C11_ScenarioB ==
  (/\ op = "boiler_balance"
   /\ REq(args[1], Q(85, 1))
   /\ REq(args[2], Q(180, 1))
   /\ REq(args[4], Q(200, 1))) =>
    /\ REq(ret.Q_sensible_kj, Q(129580, 1))
    /\ REq(ret.Q_latent_kj, Q(403000, 1))
    /\ REq(ret.Q_startup_kj, Q(532580, 1))
    /\ REq(ret.methane_needed_kg, RDiv(Q(532580, 1), RMul(Q(50000, 1), Q(85, 100))))

\* Scenario B evaluated: about 12.53 kg of methane for one startup
C11_Witness ==
  /\ op = "boiler_balance"
  /\ REq(args[1], Q(85, 1))
  /\ REq(args[2], Q(180, 1))
  /\ REq(args[4], Q(200, 1))
  /\ REq(ret.Q_startup_kj, Q(532580, 1))
  /\ RLt(Q(1253, 100), ret.methane_needed_kg)
  /\ RLt(ret.methane_needed_kg, Q(1254, 100))

\* the keys of the dict returned by partition_methane_per_day
SplitKeys == {"boiler_kg_per_day", "collector_kg_per_day", "boiler_pct", "collector_pct"}

\* C12 as stated: with zero methane production the partition returns boiler share
\* 0, collector share 0 and collector_pct = 100, and reports an insufficient flag
\* that is true iff the boiler's demand is greater than 0.
C12_ZeroProductionFlagsInsufficient ==
  (HasSplit /\ IsZero(SplitPerDay)) =>
    /\ IsZero(ret.boiler_kg_per_day)
    /\ IsZero(ret.collector_kg_per_day)
    /\ REq(ret.collector_pct, Hundred)
    /\ "insufficient" \in DOMAIN ret
    /\ ret.insufficient <=> RLt(Zero, SplitNeeded)

\* C12 amended: with zero methane production the partition returns boiler share 0,
\* collector share 0 and collector_pct = 100 whatever the demand, and the result
\* carries no insufficient flag: the partition returns its four keys only.
C12_ZeroProductionEmptySplit ==
  (HasSplit /\ IsZero(SplitPerDay)) =>
    /\ IsZero(ret.boiler_kg_per_day)
    /\ IsZero(ret.collector_kg_per_day)
    /\ REq(ret.collector_pct, Hundred)
    /\ "insufficient" \notin DOMAIN ret
    /\ op = "partition_methane_per_day" => DOMAIN ret = SplitKeys

\* a boiler with a positive demand and no production: the empty split, 100 %
\* collector
C12_Witness ==
  /\ op = "boiler_balance"
  /\ IsZero(ret.methane_per_day_kg)
  /\ RLt(Zero, ret.methane_needed_kg)
  /\ IsZero(ret.boiler_kg_per_day)
  /\ REq(ret.collector_pct, Hundred)

\* C23: methane_mass_needed_kg returns 0 when eta_boiler_pct <= 0, and
\* time_to_steam_minutes returns 0 when methane_kg_per_day <= 0 or
\* eta_boiler_pct <= 0; in every other case they return Q / (LHV * eta / 100) and
\* Q / ((kg_per_day / 86400) * LHV * eta / 100) / 60.
C23_NonPositiveInputsGiveZero ==
  /\ op = "methane_mass_needed_kg" =>
       IF RLe(args[2], Zero) THEN IsZero(ret)
       ELSE REq(RMul(ret, RMul(Q(50000, 1), RDiv(args[2], Hundred))), args[1])
  /\ op = "time_to_steam_minutes" =>
       IF RLe(args[2], Zero) \/ RLe(args[3], Zero) THEN IsZero(ret)
       ELSE REq(RMul(RMul(ret, Q(60, 1)),
                     RMul(RMul(RDiv(args[2], Q(86400, 1)), Q(50000, 1)),
                          RDiv(args[3], Hundred))),
                args[1])

\* methane available, a positive startup energy and a negative efficiency: 0 minutes
C23_Witness ==
  /\ op = "time_to_steam_minutes"
  /\ RLt(Zero, args[1])
  /\ RLt(Zero, args[2])
  /\ RLt(args[3], Zero)
  /\ IsZero(ret)

\* C24: whenever methane_needed_kg >= methane_per_day_kg > 0,
\* partition_methane_per_day returns boiler_kg_per_day = methane_per_day_kg,
\* collector_kg_per_day = 0, boiler_pct = 100 and collector_pct = 0.
C24_InsufficientFuelAllToBoiler ==
  (HasSplit /\ RLt(Zero, SplitPerDay) /\ RLe(SplitPerDay, SplitNeeded)) =>
    /\ REq(ret.boiler_kg_per_day, SplitPerDay)
    /\ IsZero(ret.collector_kg_per_day)
    /\ REq(ret.boiler_pct, Hundred)
    /\ IsZero(ret.collector_pct)

\* a boiler_balance result whose demand exceeds the day's production: nothing is
\* left for the collector
C24_Witness ==
  /\ op = "boiler_balance"
  /\ RLt(Zero, ret.methane_per_day_kg)
  /\ RLt(ret.methane_per_day_kg, ret.methane_needed_kg)
  /\ IsZero(ret.collector_kg_per_day)
  /\ REq(ret.boiler_pct, Hundred)

(***************************************************************************)
(* Claims about the power-cycle engine, checked under SpecPower.           *)
(***************************************************************************)
\* -1, 0 or 1: the sign of a number
Sign(x) == RCmp(x, Zero)

\* C8: every result of power_cycle_logic has
\* Net_Power_kWe = (W_Turb_kW - W_Comp_kW) * eta_generator; with eta_generator > 0
\* the sign of Net_Power_kWe is the sign of W_Turb_kW - W_Comp_kW, a negative
\* value being returned as a normal result.
C8_NetPowerIdentity ==
  (op = "power_cycle_logic" /\ ~Raised(ret)) =>
    /\ REq(ret.Net_Power_kWe,
           RMul(RSub(ret.W_Turb_kW, ret.W_Comp_kW), args.eta_generator))
    /\ RLt(Zero, args.eta_generator) =>
         Sign(ret.Net_Power_kWe) = Sign(RSub(ret.W_Turb_kW, ret.W_Comp_kW))

\* a fuel-less cycle: the compressor load exceeds the turbine work and the
\* negative net power is returned
C8_Witness ==
  /\ op = "power_cycle_logic"
  /\ ~Raised(ret)
  /\ RLt(Zero, args.eta_generator)
  /\ IsZero(ret.Thermal_Input_kW)
  /\ RLt(ret.W_Turb_kW, ret.W_Comp_kW)
  /\ RLt(ret.Net_Power_kWe, Zero)

\* a call without fuel and with an air flow: biogas_vol_m3 = 0, volatile_mass_kg = 0,
\* air_mass_flow_kg_s > 0
ZeroFuelCall ==
  /\ op = "power_cycle_logic"
  /\ IsZero(args.biogas_vol_m3)
  /\ IsZero(args.volatile_mass_kg)
  /\ RLt(Zero, args.air_mass_flow_kg_s)

\* C13: with zero fuel input and any air_mass_flow_kg_s > 0, power_cycle_logic
\* returns Thermal_Input_kW = 0 and T3_C = T2_C, for every pressure ratio,
\* efficiency and ambient temperature of the declared domain.
C13_ZeroFuelNoTemperatureRise ==
  ZeroFuelCall =>
    /\ ~Raised(ret)
    /\ IsZero(ret.Thermal_Input_kW)
    /\ REq(ret.T3_C, ret.T2_C)

\* Scenario D: air 0.5 kg/s, pressure ratio 10, efficiencies 0.75 / 0.85 / 0.94,
\* ambient 25 C, no fuel
ScenarioD ==
  /\ ZeroFuelCall
  /\ REq(args.air_mass_flow_kg_s, Q(1, 2))
  /\ REq(args.pressure_ratio, Q(10, 1))
  /\ REq(args.eta_compressor, Q(75, 100))
  /\ REq(args.eta_turbine, Q(85, 100))
  /\ REq(args.eta_generator, Q(94, 100))
  /\ REq(args.t_ambient_c, Q(25, 1))

\* C14: Scenario D returns a strictly negative Net_Power_kWe, the compressor work
\* exceeding the turbine work.
C14_ScenarioDNegativeNet ==
  ScenarioD =>
    /\ ~Raised(ret)
    /\ RLt(ret.Net_Power_kWe, Zero)
    /\ RLt(ret.W_Turb_kW, ret.W_Comp_kW)

\* Scenario D evaluated: about -41.17 kWe
C14_Witness ==
  /\ ScenarioD
  /\ ~Raised(ret)
  /\ RLt(Q(0 - 4117, 100), ret.Net_Power_kWe)
  /\ RLt(ret.Net_Power_kWe, Q(0 - 4116, 100))

\* an efficiency given as a 0..1 fraction, 0 and 1 included
IsFraction(x) == RLe(Zero, x) /\ RLe(x, One)

\* C15: for every air_mass_flow_kg_s > 0, pressure_ratio > 1 and efficiencies in
\* 0..1 (an efficiency of exactly 0 included) power_cycle_logic returns a result
\* dict: no division raises.
C15_NoUnhandledFault ==
  (/\ op = "power_cycle_logic"
   /\ RLt(Zero, args.air_mass_flow_kg_s)
   /\ RLt(One, args.pressure_ratio)
   /\ IsFraction(args.eta_compressor)
   /\ IsFraction(args.eta_turbine)
   /\ IsFraction(args.eta_generator)) => ~Raised(ret)

(***************************************************************************)
(* Claims about the lazy singletons, checked under SpecLoader.             *)
(***************************************************************************)
\* C17: for any number of callers of get_sat_lookup() (resp. get_sup_lookup()) and
\* any interleaving of their steps, the constructor of the table runs at most once
\* and every caller receives the same instance.
C17_LoadedOncePerProcess ==
  \A table \in Tables :
    /\ loads[table] <= 1
    /\ \A t1, t2 \in Callers :
         (got[t1][table] # Unset /\ got[t2][table] # Unset) =>
           got[t1][table] = got[t2][table]

(***************************************************************************)
(* Claims about the lookups, checked under SpecSteam.                      *)
(***************************************************************************)
\* the index of the row of lowest, resp. highest, temperature of a loaded table
LowestRow(table) ==
  CHOOSE i \in 1..Len(table) : \A j \in 1..Len(table) : RLe(table[i].T, table[j].T)

HighestRow(table) ==
  CHOOSE i \in 1..Len(table) : \A j \in 1..Len(table) : RLe(table[j].T, table[i].T)

\* what a lookup reads in row i of the table: (h_f, h_fg) or (s_f, s_g)
RowValues(table, i) ==
  IF op = "lookup_enthalpy" THEN <<table[i].hf, table[i].hfg>>
  ELSE <<table[i].sf, table[i].sg>>

BuiltinCall == op \in {"h_saturated_steam_kj_kg", "h_saturated_liquid_kj_kg"}

BuiltinTable == IF op = "h_saturated_steam_kj_kg" THEN STEAM_H_TABLE ELSE STEAM_H_F_TABLE

\* the value a built-in lookup must give outside 100..250 C
ClampLow == IF op = "h_saturated_steam_kj_kg" THEN Q(2676, 1) ELSE Q(419, 1)

ClampHigh == IF op = "h_saturated_steam_kj_kg" THEN Q(2801, 1) ELSE Q(1085, 1)

\* C9: lookups clamp outside the table range, with no extrapolation: below the
\* lowest table temperature the value of the lowest row, above the highest the
\* value of the highest row; for the built-in tables h_g = 2676 below 100 C and
\* 2801 above 250 C, h_f = 419 and 1085; the same for lookup_enthalpy and
\* lookup_entropy on a loaded table.
C9_LookupsClamp ==
  /\ BuiltinCall =>
       \A i \in 1..2 :
         /\ RLt(args[i], Q(100, 1)) => REq(ret[i], ClampLow)
         /\ RLt(Q(250, 1), args[i]) => REq(ret[i], ClampHigh)
  /\ (op \in {"lookup_enthalpy", "lookup_entropy"} /\ ~df.isNone) =>
       /\ RLt(args[1], df.rows[LowestRow(df.rows)].T) =>
            /\ REq(ret[1], RowValues(df.rows, LowestRow(df.rows))[1])
            /\ REq(ret[2], RowValues(df.rows, LowestRow(df.rows))[2])
       /\ RLt(df.rows[HighestRow(df.rows)].T, args[1]) =>
            /\ REq(ret[1], RowValues(df.rows, HighestRow(df.rows))[1])
            /\ REq(ret[2], RowValues(df.rows, HighestRow(df.rows))[2])

\* a lookup_enthalpy below the range of a table loaded from the unordered file
C9_Witness ==
  /\ op = "lookup_enthalpy"
  /\ df = SteamTableLookup(CsvFile(CSV_UNORDERED))
  /\ RLt(args[1], Q(50, 1))
  /\ REq(ret[1], Q(209, 1))
  /\ REq(ret[2], Q(2382, 1))

\* C10: the built-in lookups are monotonic in temperature, inside and outside
\* 100..250 C, and a lookup at a tabulated temperature returns the tabulated value.
C10_BuiltinMonotonic ==
  BuiltinCall =>
    /\ RLe(args[1], args[2]) => RLe(ret[1], ret[2])
    /\ \A i \in 1..2 : \A k \in 1..Len(BuiltinTable) :
         REq(args[i], Q(BuiltinTable[k][1], 1)) => REq(ret[i], Q(BuiltinTable[k][2], 1))

\* h_f at 180 C (tabulated, 763) and at 260 C (above the table, 1085)
C10_Witness ==
  /\ op = "h_saturated_liquid_kj_kg"
  /\ REq(args[1], Q(180, 1))
  /\ REq(args[2], Q(260, 1))
  /\ REq(ret[1], Q(763, 1))
  /\ REq(ret[2], Q(1085, 1))

LookedUp == SuperheatedLookup(args[1])

\* the index of the table pressure p_hi with p_lo < target <= p_hi
UpperRow(pressures, target) ==
  CHOOSE i \in 2..Len(pressures) : RLt(pressures[i - 1], target) /\ RLe(target, pressures[i])

\* the value the two stages give between the rows i - 1 and i
TwoStage(self, i, target_pressure, target_temp, c) ==
  RAdd(lookup_at_pressure(self, self.pressures[i - 1], target_temp)[c],
       RMul(RDiv(RSub(target_pressure, self.pressures[i - 1]),
                 RSub(self.pressures[i], self.pressures[i - 1])),
            RSub(lookup_at_pressure(self, self.pressures[i], target_temp)[c],
                 lookup_at_pressure(self, self.pressures[i - 1], target_temp)[c])))

\* C25: SuperheatedLookup.lookup returns (None, None) when the table is not
\* loaded; at or beyond either end of the pressure range the single-row lookup at
\* that end pressure; strictly between, with the adjacent table pressures
\* p_lo < target <= p_hi and each row interpolated in temperature,
\* h_lo + frac * (h_hi - h_lo) with frac = (target - p_lo) / (p_hi - p_lo), so that
\* a target equal to a tabulated pressure returns that row's value.
C25_TwoStageInterpolation ==
  op = "SuperheatedLookup.lookup" =>
    IF LookedUp.isNone \/ LookedUp.pressures = <<>> THEN ret = <<None, None>>
    ELSE LET ps == LookedUp.pressures
         IN  /\ RLe(args[2], ps[1]) => ret = lookup_at_pressure(LookedUp, ps[1], args[3])
             /\ RLe(ps[Len(ps)], args[2]) =>
                  ret = lookup_at_pressure(LookedUp, ps[Len(ps)], args[3])
             /\ (RLt(ps[1], args[2]) /\ RLt(args[2], ps[Len(ps)])) =>
                  \A c \in 1..2 :
                    REq(ret[c], TwoStage(LookedUp, UpperRow(ps, args[2]), args[2], args[3], c))
             /\ \A k \in 1..Len(ps) :
                  REq(args[2], ps[k]) =>
                    \A c \in 1..2 :
                      REq(ret[c], lookup_at_pressure(LookedUp, ps[k], args[3])[c])

\* 3 MPa and 250 C on the unordered table: halfway between the 1 MPa row
\* (h = 2939.5 at 250 C) and the 5 MPa row (h = 2925, clamped at 300 C)
C25_Witness ==
  /\ op = "SuperheatedLookup.lookup"
  /\ args[1] = CsvFile(SUPERHEATED_CSV_UNORDERED)
  /\ REq(args[2], Q(3, 1))
  /\ REq(args[3], Q(250, 1))
  /\ REq(ret[1], Q(293225, 100))

\* the progress energy of a drawn figure, min(Q_total_kj, Q_startup_kj), and the
\* sensible energy of the diagram, m * (h_f - h_inlet)
QProgress == RMin(ret.Q_total_kj, args[1].Q_startup_kj)

QSensibleDiagram ==
  RMul(args[1].boiler_water_capacity_kg, RSub(ret.latent[1][1], ret.sensible[1][1]))

\* the point p = (h, T) lies on the segment from a to b
OnSegment(p, a, b) ==
  /\ REq(RMul(RSub(p[1], a[1]), RSub(b[2], a[2])), RMul(RSub(p[2], a[2]), RSub(b[1], a[1])))
  /\ RLe(RMin(a[1], b[1]), p[1]) /\ RLe(p[1], RMax(a[1], b[1]))
  /\ RLe(RMin(a[2], b[2]), p[2]) /\ RLe(p[2], RMax(a[2], b[2]))

\* C26: for every progress energy in the sensible phase, 0 < Q_progress <=
\* Q_sensible_diagram = m * (h_f - h_inlet), the marker (h_current, T_current)
\* lies on the sensible segment from (h_inlet, T_ambient) to (h_f, T_steam) drawn
\* by build_th_figure: T_current never exceeds T_steam_C, and the marker is at
\* (h_f, T_steam) exactly when Q_progress = Q_sensible_diagram.
C26_MarkerOnSensiblePath ==
  (/\ op = "build_th_figure"
   /\ RLt(Zero, args[1].boiler_water_capacity_kg)
   /\ RLt(Zero, QProgress)
   /\ RLe(QProgress, QSensibleDiagram)) =>
    /\ OnSegment(ret.progress, ret.sensible[1], ret.latent[1])
    /\ RLe(ret.progress[2], ret.latent[1][2])
    /\ REq(QProgress, QSensibleDiagram) <=>
         (REq(ret.progress[1], ret.latent[1][1]) /\ REq(ret.progress[2], ret.latent[1][2]))

(***************************************************************************)
(* A claim about partial evaluation, checked under SpecInstance.           *)
(***************************************************************************)
\* C29: after any sequence of property reads, run() and to_dict() calls, the calls
\* that raise included, the fourteen derived attributes are all None or all set,
\* and a property read leaves all of them set.
C29_NeverPartiallyEvaluated ==
  /\ \/ \A f \in DerivedFields : kin[f] = Unset
     \/ \A f \in DerivedFields : kin[f] # Unset
  /\ op = "property" => \A f \in DerivedFields : kin[f] # Unset

(***************************************************************************)
(* Claims about the step wizard of app.py.                                 *)
(***************************************************************************)
\* C27: in every reachable session of the wizard the result the current step
\* renders exists: current_step >= 1 implies report is not None, current_step >= 3
\* implies boiler_result is not None, current_step >= 4 implies
\* power_cycle_result is not None, and current_step stays in 0..5.
C27_RenderedResultExists ==
  /\ session_state.current_step \in 0..5
  /\ session_state.current_step >= 1 => session_state.report # Unset
  /\ session_state.current_step >= 3 => session_state.boiler_result # Unset
  /\ session_state.current_step >= 4 => session_state.power_cycle_result # Unset

\* the menu opened step 4 (Combustion & power cycle) from an earlier step
C27_Witness ==
  /\ op = "nav_step"
  /\ args = <<3>>
  /\ session_state.current_step = 3
  /\ session_state.power_cycle_result = Unset

\* what a stored result took from the report it was computed from: the boiler
\* result its daily methane mass, the power-cycle result its thermal input
BoilerFromReport ==
  REq(session_state.boiler_result[1].methane_per_day_kg,
      methane_production_kg_per_day(OrElse(session_state.report[1].avg_daily_m3, Zero),
                                    CH4_DENSITY_KG_M3))

PowerFromReport ==
  REq(session_state.power_cycle_result[1].Thermal_Input_kW,
      RAdd(RDiv(RMul(OrElse(session_state.report[1].V_total_m3,
                            RMul(session_state.report[1].avg_daily_m3, Q(30, 1))),
                     Q(LHV_biogas_kJ_m3, 1)), Q(1440, 1)),
           RDiv(RMul(OrElse(session_state.report[1].volatile_yield_kg,
                            RMul(session_state.report[1].reactor_mass_kg, Q(5, 100))),
                     Q(LHV_volatiles_kJ_kg, 1)), Q(60, 1))))

\* the report is the one of the submitted form: its biomass type, and the rate
\* constant of the submitted temperature
ReportOfForm ==
  /\ session_state.report # Unset
  /\ session_state.report[1].biomass_type = BIOMASS_TYPES[args[1]].label
  /\ REq(session_state.report[1].moisture_pct_used, BIOMASS_TYPES[args[1]].moisture_pct)
  /\ REq(session_state.report[1].k_per_day,
         reaction_rate_constant_k(A_DEFAULT, Q(Ea_DEFAULT, 1), celsius_to_kelvin(args[4])))

\* C28: an Analyze submit stores the new report, clears boiler_result and
\* power_cycle_result and sets current_step to 1; in every reachable session a
\* stored boiler_result or power_cycle_result is the one computed from the
\* stored report, and power_cycle_result not None implies boiler_result not
\* None implies report not None.
C28_NoStaleDownstreamResults ==
  /\ op = "Analyze" =>
       /\ ReportOfForm
       /\ session_state.boiler_result = Unset
       /\ session_state.power_cycle_result = Unset
       /\ session_state.current_step = 1
  /\ session_state.power_cycle_result # Unset => session_state.boiler_result # Unset
  /\ session_state.boiler_result # Unset => session_state.report # Unset
  /\ session_state.boiler_result # Unset => BoilerFromReport
  /\ session_state.power_cycle_result # Unset => PowerFromReport

\* back on the first step with both downstream results stored, the Analyze form shown
C28_Witness ==
  /\ session_state.current_step = 0
  /\ session_state.boiler_result # Unset
  /\ session_state.power_cycle_result # Unset

(***************************************************************************)
(* A claim about boiler_balance in binary64, checked under SpecBinary64.   *)
(***************************************************************************)
\* boiler_kg_per_day * 50000 * eta_boiler_pct / 100, evaluated left to right
EnergyDelivered(r) ==
  FDiv(FMul(FMul(r.boiler_kg_per_day, Q(LHV_METHANE_KJ_KG, 1)), r.eta_boiler_pct), Hundred)

\* a result of boiler_balance with methane_per_day_kg >= 0 and Q_startup_kj >= 0
\* (eta_boiler_pct is in 1..99 on the whole grid)
BalanceReturned ==
  /\ op = "boiler_balance in binary64"
  /\ RLe(Zero, ret.methane_per_day_kg)
  /\ RLe(Zero, ret.Q_startup_kj)

MinutesPerDay == Q(SECONDS_PER_DAY, 60)

\* the statement of C30 as the specification words it, every comparison exact:
\* the energy of the boiler share is at most Q_startup_kj, equal to it exactly
\* when methane_needed_kg <= methane_per_day_kg, and for methane_per_day_kg > 0
\* startup_time_minutes >= 1440 exactly when collector_kg_per_day = 0.
C30_EnergyNeverExceedsStartup ==
  BalanceReturned =>
    /\ RLe(EnergyDelivered(ret), ret.Q_startup_kj)
    /\ REq(EnergyDelivered(ret), ret.Q_startup_kj)
         <=> RLe(ret.methane_needed_kg, ret.methane_per_day_kg)
    /\ RLt(Zero, ret.methane_per_day_kg) =>
         (RLe(MinutesPerDay, ret.startup_time_minutes) <=> IsZero(ret.collector_kg_per_day))

\* the relative slack 2^-48 that covers the roundings of the chain (at most
\* nine, each within 2^-53)
RoundingSlack == Mk(FALSE, <<1>>, NPow2(48))

\* x * (1 + 2^-48) and x * (1 - 2^-48)
SlackAbove(x) == RMul(x, RAdd(One, RoundingSlack))

SlackBelow(x) == RMul(x, RSub(One, RoundingSlack))

\* the energy e of the boiler share of the result r against Q_startup_kj, up to
\* the slack
EnergyWithinRounding(e, r) ==
  /\ RLe(e, SlackAbove(r.Q_startup_kj))
  /\ RLe(r.methane_needed_kg, r.methane_per_day_kg) => RLe(SlackBelow(r.Q_startup_kj), e)
  /\ RLt(SlackAbove(r.methane_per_day_kg), r.methane_needed_kg) => RLt(e, r.Q_startup_kj)

\* C30: for every boiler_balance result with eta_boiler_pct in 1..99,
\* methane_per_day_kg >= 0 and Q_startup_kj >= 0, the energy of the boiler's daily
\* share (as the claim writes it, and as build_th_figure computes Q_total_kj) is
\* at most Q_startup_kj up to a relative rounding of 2^-48, reaches it up to that
\* rounding when methane_needed_kg <= methane_per_day_kg, and is below it when
\* methane_needed_kg exceeds methane_per_day_kg by more than that rounding; for
\* methane_per_day_kg > 0, collector_kg_per_day = 0 implies startup_time_minutes
\* >= 1440 * (1 - 2^-48), and startup_time_minutes >= 1440 * (1 + 2^-48) implies
\* collector_kg_per_day = 0.
C30_EnergyWithinRounding ==
  BalanceReturned =>
    /\ EnergyWithinRounding(EnergyDelivered(ret), ret)
    /\ EnergyWithinRounding(Q_total_kj_binary64(ret.boiler_kg_per_day, ret.eta_boiler_pct), ret)
    /\ RLt(Zero, ret.methane_per_day_kg) =>
         /\ IsZero(ret.collector_kg_per_day)
              => RLe(SlackBelow(MinutesPerDay), ret.startup_time_minutes)
         /\ RLe(SlackAbove(MinutesPerDay), ret.startup_time_minutes)
              => IsZero(ret.collector_kg_per_day)

\* a day's methane covers the startup, and the energy of the boiler share comes
\* out above Q_startup_kj
C30_Witness ==
  /\ BalanceReturned
  /\ RLe(ret.methane_needed_kg, ret.methane_per_day_kg)
  /\ RLt(ret.Q_startup_kj, EnergyDelivered(ret))

====
